---- MODULE Spec2Model ----
(***************************************************************************)
(* State-machine model of the prompt-generation orchestrator               *)
(* (src/prompt_orchestrator.py), the Redis-backed CacheManager it uses     *)
(* (src/cache.py), the worker processes that execute its runs, and the     *)
(* callers of CacheManager's operations on a store shared with the broker. *)
(*                                                                         *)
(* Python's Optional values are modelled as tuples: None is <<>> and a     *)
(* present value v is <<v>>, so that a None never meets an integer or a    *)
(* record in a comparison.                                                 *)
(***************************************************************************)
EXTENDS Integers, Sequences, FiniteSets, TLC

(* ----------------------------- bounds ---------------------------------- *)

\* Largest finite iteration budget the inputs and the configuration offer.
MaxIter == 3
\* Iterations an unbudgeted run (max_iterations None) is followed for.
IterCap == 3
\* Largest reading of the workers' clock.
MaxClock == 2
\* Counted CacheManager calls a process makes between two reset_stats.
MaxStat == 3
\* Half-seconds an entry of the store is followed for while it is live.
MaxAge == 2

(* ---------------------------- constants -------------------------------- *)

\* config.MIN_ACCEPTABLE_SCORE as the orchestrator's tests configure it.
MIN_ACCEPTABLE_SCORE == 800
\* ttl of the run-level cache entry (self.cache.set(..., ttl=86400)).
RUN_CACHE_TTL == 86400
\* settings.CACHE_TTL, the ttl of a cache.set that names none.
CACHE_TTL == 300

(* ------------------------------ values --------------------------------- *)

None == <<>>
Some(v) == <<v>>
TheValue(opt) == opt[1]

\* The generation runs (calls of generate_prompt) the model follows.
Runs == {"r1", "r2"}
\* Worker processes; each has its own interpreter, CacheManager and orchestrator.
Procs == {"w1", "w2"}
\* Per-process secrets of Python's str hash (PYTHONHASHSEED unset: drawn at start-up).
Seeds == {"seedA", "seedB"}
\* Requirements texts submitted by callers.
Requirements == {"reqA", "reqB"}
\* Texts the Generator collaborator (the LLM) may return.
Prompts == {"p1", "p2"}
\* Scores the cached evaluation may return: two below the threshold, the
\* threshold itself, one above it (all inside the evaluator's clamp to 0..1000).
Scores == {MIN_ACCEPTABLE_SCORE - 100, MIN_ACCEPTABLE_SCORE - 50,
           MIN_ACCEPTABLE_SCORE, MIN_ACCEPTABLE_SCORE + 50}
\* The max_iterations argument: None, 0 (falsy, like None) or a budget >= 1.
MaxIterationsArgs == {None} \cup {Some(n) : n \in 0..MaxIter}
\* config.MAX_ITERATIONS: unset, 0 (an unvalidated configuration) or the budget.
ConfigMaxIterations == {None, Some(0), Some(MaxIter)}
\* The task_id argument: None or a caller-chosen identifier.
TaskIdArgs == {None, Some(<<"arg", "t1">>)}

VARIABLES
    config,     \* the orchestrator's Config: MAX_ITERATIONS, MIN_ACCEPTABLE_SCORE
    hashSeed,   \* [Procs -> Seeds]: each worker process's str-hash secret
    redis,      \* the backing store: namespaced key -> [value, ttl]
    stats,      \* [Procs -> counters]: each process's CacheManager.stats
    now,        \* last reading of datetime.utcnow()
    runs,       \* [Runs -> locals of that generate_prompt call and its position]
    calls,      \* [Runs -> sequence of the collaborator calls the run has made]
    events,     \* [Runs -> sequence of progress events passed to progress_callback]
    cacheSets,  \* [Runs -> sequence of the cache.set calls the run has made]
    reply,      \* the CacheManager call made by the last step and its outcome
    architect,  \* [Procs -> version]: each process's PromptArchitect.version
    celery,     \* the queue: tasks sent, the result store, revoke requests received
    statusCall, \* the get_task_status call in progress: its locals and position
    taskCalls,  \* sequence of the TaskManager calls that have returned
    clearCall   \* the CacheManager.clear call in progress: its locals and position

\* The state of the queue and of the callers of TaskManager.
taskVars == <<celery, statusCall, taskCalls>>

vars == <<config, hashSeed, redis, stats, now, runs, calls, events, cacheSets, reply,
          architect, celery, statusCall, taskCalls, clearCall>>

(* ------------------------- Python helpers ------------------------------ *)

\* Truthiness of an Optional[int]: None and 0 are falsy.
TruthyInt(opt) == opt # None /\ TheValue(opt) # 0

\* `a or b` on Optional[int].
PyOr(a, b) == IF TruthyInt(a) THEN a ELSE b

\* hash(str): a keyed hash; the key is the process's secret. Distinct secrets
\* give distinct values for one text, and the value space is finite, so two
\* texts can meet in one value.
PyHash(seed, s) ==
    IF seed = "seedA"
    THEN (IF s = "reqA" THEN "h1" ELSE "h2")
    ELSE (IF s = "reqA" THEN "h2" ELSE "h3")

\* str(uuid.uuid4()): a fresh identifier, distinct per call.
uuid4(r) == <<"uuid", r>>

(* ------------------------------ Redis ---------------------------------- *)

\* An entry of the store is [value, ttl, age]: the bytes, the time to live in
\* seconds it was stored with (None: no expiry) and the half-seconds elapsed
\* since. An entry whose time to live has elapsed stays in the table until it
\* is overwritten or deleted, and no command sees it.
Live(name) ==
    /\ name \in DOMAIN redis
    /\ IF redis[name].ttl = None THEN TRUE
       ELSE redis[name].age < 2 * TheValue(redis[name].ttl)

\* redis.get(name): the stored bytes, None when the key is absent.
RedisGet(name) == IF Live(name) THEN Some(redis[name].value) ELSE None

\* redis.setex(name, time, value) / redis.set(name, value): the store after it.
RedisSet(name, ttl, bytes) ==
    [k \in DOMAIN redis \cup {name} |->
        IF k = name THEN [value |-> bytes, ttl |-> ttl, age |-> 0] ELSE redis[k]]

\* redis.delete(*names): the store after it.
RedisDelete(names) == [k \in DOMAIN redis \ names |-> redis[k]]

\* The reply of redis.delete(*names): the number of keys removed.
RedisDeleted(names) == Cardinality({name \in names : Live(name)})

\* Glob matching of a key against a pattern, part by part; "*" stands for any
\* run of parts.
RECURSIVE GlobMatch(_, _)
GlobMatch(pattern, name) ==
    IF pattern = <<>> THEN name = <<>>
    ELSE IF Head(pattern) = "*"
         THEN \/ GlobMatch(Tail(pattern), name)
              \/ name # <<>> /\ GlobMatch(pattern, Tail(name))
         ELSE /\ name # <<>>
              /\ Head(name) = Head(pattern)
              /\ GlobMatch(Tail(pattern), Tail(name))

\* redis.keys(pattern): the keys of the store that match.
RedisKeys(pattern) == {name \in DOMAIN redis : Live(name) /\ GlobMatch(pattern, name)}

\* redis.ttl(name): -2 for an absent key, -1 for a key without expiry, else the
\* remaining time rounded to whole seconds, which is 0 in the entry's last
\* half-second.
RedisTtl(name) ==
    IF ~Live(name) THEN 0 - 2
    ELSE IF redis[name].ttl = None THEN 0 - 1
    ELSE (2 * TheValue(redis[name].ttl) - redis[name].age) \div 2

\* redis.exists(name): the number of the names that exist.
RedisExists(name) == IF Live(name) THEN 1 ELSE 0

(* --------------------------- CacheManager ------------------------------ *)

\* self._key_prefix: settings has no CACHE_PREFIX, so "agi_prompt:".
KeyPrefix == "agi_prompt:"

\* A key made without the namespace.
MakeKey_NoPrefix(key) == key

\* _make_key: f"{self._key_prefix}{key}"; a key is the sequence of its parts.
MakeKey(key) == <<KeyPrefix>> \o key

\* Whether json.dumps accepts the value; a datetime makes it raise TypeError.
JsonRepresentable(value) == ~("py" \in DOMAIN value /\ value.py = "datetime")

\* The JSON document json.dumps writes for a value: a tuple is written as an
\* array, which json.loads reads as a list; a dict, a list or a string is
\* read back as it was.
JsonDumps(value) ==
    IF "py" \in DOMAIN value /\ value.py = "tuple"
    THEN [value EXCEPT !.py = "list"]
    ELSE value

\* _serialize: json.dumps(value).encode('utf-8').
Serialize(value) == [json |-> TRUE, doc |-> JsonDumps(value)]

\* The bytes returned undecoded.
Deserialize_Raw(bytes) ==
    IF bytes = None THEN None ELSE Some([py |-> "bytes", doc |-> TheValue(bytes).doc])

\* _deserialize: None for None and for bytes that are not JSON.
Deserialize(bytes) ==
    IF bytes = None THEN None
    ELSE IF TheValue(bytes).json THEN Some(TheValue(bytes).doc)
    ELSE None

Bump(w, counter) == [stats EXCEPT ![w][counter] = @ + 1]

\* The operations below give the value returned (ret), the exception raised
\* (raised, None when the call returns), the store and the stats after the
\* call, and the store keys the call addressed (touched). `redisError` is
\* whether the store raised a RedisError.

\* None returned on a miss, whatever the default.
CacheGet_NoDefault(w, key, default, redisError) ==
    IF redisError
    THEN [ret |-> default, raised |-> None, redis |-> redis,
          stats |-> Bump(w, "errors"), touched |-> {MakeKey(key)}]
    ELSE LET value == RedisGet(MakeKey(key))
         IN IF value # None
            THEN [ret |-> Deserialize(value), raised |-> None, redis |-> redis,
                  stats |-> Bump(w, "hits"), touched |-> {MakeKey(key)}]
            ELSE [ret |-> None, raised |-> None, redis |-> redis,
                  stats |-> Bump(w, "misses"), touched |-> {MakeKey(key)}]

\* CacheManager.get(key, default).
CacheGet(w, key, default, redisError) ==
    IF redisError
    THEN [ret |-> default, raised |-> None, redis |-> redis,
          stats |-> Bump(w, "errors"), touched |-> {MakeKey(key)}]
    ELSE LET value == RedisGet(MakeKey(key))
         IN IF value # None
            THEN [ret |-> Deserialize(value), raised |-> None, redis |-> redis,
                  stats |-> Bump(w, "hits"), touched |-> {MakeKey(key)}]
            ELSE [ret |-> default, raised |-> None, redis |-> redis,
                  stats |-> Bump(w, "misses"), touched |-> {MakeKey(key)}]

\* The fallback of a settings object without CACHE_TTL used although the
\* setting is there.
DefaultTtl_Fallback(ttl) == IF ttl = None THEN 86400 ELSE TheValue(ttl)

\* `if ttl is None: ttl = settings.CACHE_TTL`.
DefaultTtl(ttl) == IF ttl = None THEN CACHE_TTL ELSE TheValue(ttl)

\* The ttl test inverted: a positive ttl stores the entry without expiry.
CacheSet_NoExpiry(w, key, value, ttl, redisError) ==
    IF redisError
    THEN [ret |-> FALSE, raised |-> None, redis |-> redis,
          stats |-> Bump(w, "errors"), touched |-> {MakeKey(key)}]
    ELSE [ret |-> TRUE, raised |-> None,
          redis |-> RedisSet(MakeKey(key),
                             IF DefaultTtl(ttl) > 0 THEN None ELSE Some(DefaultTtl(ttl)),
                             Serialize(value)),
          stats |-> Bump(w, "sets"), touched |-> {MakeKey(key)}]

\* A live entry is kept and the new value dropped (SET with NX).
CacheSet_KeepExisting(w, key, value, ttl, redisError) ==
    IF redisError
    THEN [ret |-> FALSE, raised |-> None, redis |-> redis,
          stats |-> Bump(w, "errors"), touched |-> {MakeKey(key)}]
    ELSE [ret |-> TRUE, raised |-> None,
          redis |-> IF Live(MakeKey(key)) THEN redis
                    ELSE RedisSet(MakeKey(key),
                                  IF DefaultTtl(ttl) > 0 THEN Some(DefaultTtl(ttl)) ELSE None,
                                  Serialize(value)),
          stats |-> Bump(w, "sets"), touched |-> {MakeKey(key)}]

\* The value stored as it is when json.dumps refuses it.
CacheSet_StoreAnyway(w, key, value, ttl, redisError) ==
    IF redisError
    THEN [ret |-> FALSE, raised |-> None, redis |-> redis,
          stats |-> Bump(w, "errors"), touched |-> {MakeKey(key)}]
    ELSE [ret |-> TRUE, raised |-> None,
          redis |-> RedisSet(MakeKey(key),
                             IF DefaultTtl(ttl) > 0 THEN Some(DefaultTtl(ttl)) ELSE None,
                             [json |-> FALSE, doc |-> value]),
          stats |-> Bump(w, "sets"), touched |-> {MakeKey(key)}]

\* CacheManager.set(key, value, ttl). The ValueError of _serialize is raised
\* inside the try, which catches RedisError only.
CacheSet(w, key, value, ttl, redisError) ==
    IF ~JsonRepresentable(value)
    THEN [ret |-> FALSE, raised |-> Some("ValueError"), redis |-> redis,
          stats |-> stats, touched |-> {}]
    ELSE IF redisError
    THEN [ret |-> FALSE, raised |-> None, redis |-> redis,
          stats |-> Bump(w, "errors"), touched |-> {MakeKey(key)}]
    ELSE [ret |-> TRUE, raised |-> None,
          redis |-> RedisSet(MakeKey(key),
                             IF DefaultTtl(ttl) > 0 THEN Some(DefaultTtl(ttl)) ELSE None,
                             Serialize(value)),
          stats |-> Bump(w, "sets"), touched |-> {MakeKey(key)}]

\* CacheManager.delete(key): deletes is incremented whatever redis.delete replies.
CacheDelete(w, key, redisError) ==
    IF redisError
    THEN [ret |-> FALSE, raised |-> None, redis |-> redis,
          stats |-> Bump(w, "errors"), touched |-> {MakeKey(key)}]
    ELSE [ret |-> RedisDeleted({MakeKey(key)}) > 0, raised |-> None,
          redis |-> RedisDelete({MakeKey(key)}),
          stats |-> Bump(w, "deletes"), touched |-> {MakeKey(key)}]

\* CacheManager.clear(pattern): the matching keys fit one batch of 1000.
CacheClear(w, pattern, redisError) ==
    IF redisError
    THEN [ret |-> 0, raised |-> None, redis |-> redis,
          stats |-> Bump(w, "errors"), touched |-> {}]
    ELSE LET keys == RedisKeys(MakeKey(pattern))
             deleted == RedisDeleted(keys)
         IN [ret |-> deleted, raised |-> None,
             redis |-> RedisDelete(keys),
             stats |-> [stats EXCEPT ![w].deletes = @ + deleted],
             touched |-> keys]

\* `ttl > 0` written for `ttl >= 0`.
CacheGetTtl_PositiveOnly(w, key, redisError) ==
    IF redisError
    THEN [ret |-> None, raised |-> None, redis |-> redis,
          stats |-> Bump(w, "errors"), touched |-> {MakeKey(key)}]
    ELSE LET ttl == RedisTtl(MakeKey(key))
         IN [ret |-> IF ttl > 0 THEN Some(ttl) ELSE None, raised |-> None,
             redis |-> redis, stats |-> stats, touched |-> {MakeKey(key)}]

\* CacheManager.get_ttl(key): `ttl if ttl >= 0 else None`.
CacheGetTtl(w, key, redisError) ==
    IF redisError
    THEN [ret |-> None, raised |-> None, redis |-> redis,
          stats |-> Bump(w, "errors"), touched |-> {MakeKey(key)}]
    ELSE LET ttl == RedisTtl(MakeKey(key))
         IN [ret |-> IF ttl >= 0 THEN Some(ttl) ELSE None, raised |-> None,
             redis |-> redis, stats |-> stats, touched |-> {MakeKey(key)}]

\* The error of the store counted as a miss.
CacheExists_ErrorAsMiss(w, key, redisError) ==
    IF redisError
    THEN [ret |-> FALSE, raised |-> None, redis |-> redis,
          stats |-> Bump(w, "misses"), touched |-> {MakeKey(key)}]
    ELSE [ret |-> RedisExists(MakeKey(key)) # 0, raised |-> None,
          redis |-> redis, stats |-> stats, touched |-> {MakeKey(key)}]

\* CacheManager.exists(key).
CacheExists(w, key, redisError) ==
    IF redisError
    THEN [ret |-> FALSE, raised |-> None, redis |-> redis,
          stats |-> Bump(w, "errors"), touched |-> {MakeKey(key)}]
    ELSE [ret |-> RedisExists(MakeKey(key)) # 0, raised |-> None,
          redis |-> redis, stats |-> stats, touched |-> {MakeKey(key)}]

(* ------------------------------ state ---------------------------------- *)

ZeroStats == [hits |-> 0, misses |-> 0, sets |-> 0, deletes |-> 0, errors |-> 0]

\* A generate_prompt call that has not been made yet.
IdleRun ==
    [pc |-> "idle", worker |-> "w1", requirements |-> "reqA",
     max_iterations |-> None, task_id |-> None, progress_callback |-> FALSE,
     cache_key |-> None, lookup |-> "none",
     current_prompt |-> None, iteration |-> 0, score |-> None,
     current_run_results |-> <<>>, returned |-> None, raised |-> None,
     outcome |-> "none", after |-> {}]

\* No CacheManager call was made by the step.
NoCall == [op |-> "none"]

\* Task identifiers: t1 is sent to the queue, t2 never is.
TaskIds == {"t1", "t2"}
SentIds == {"t1"}

\* celery.states.READY_STATES.
READY_STATES == {"SUCCESS", "FAILURE", "REVOKED"}

\* What the result store answers for an identifier it holds nothing about, a
\* task not yet started included.
PendingMeta == [status |-> "PENDING", result |-> None, traceback |-> None]

\* The queue before anything is sent: `sent` are the identifiers handed to the
\* broker, `meta` the result store, `revoked` the revoke request the workers
\* hold for each identifier ("no", "revoke", "terminate").
NoTasks ==
    [sent |-> {}, meta |-> [t \in TaskIds |-> PendingMeta],
     revoked |-> [t \in TaskIds |-> "no"]]

\* The response dict of get_task_status; result, error and traceback are None
\* while the key is absent.
NoResponse ==
    [task_id |-> "", status |-> "", ready |-> FALSE, successful |-> FALSE,
     failed |-> FALSE, result |-> None, error |-> None, traceback |-> None]

\* No get_task_status call is in progress. `lookup` is how the cache lookup
\* ended ("hit", "miss", "error"), `cache` is AsyncResult._cache and `reads`
\* the number of queries of the result store the call has made.
IdleStatusCall ==
    [pc |-> "idle", worker |-> "w1", task_id |-> "t1", lookup |-> "none",
     cache |-> None, reads |-> 0, response |-> NoResponse]

\* No clear call is in progress. `keys` are the names redis.keys listed,
\* `remaining` those not yet handed to redis.delete, `requests` the number of
\* names of each redis.delete made, `deleted` the local of that name, `removed`
\* the number of entries the requests removed from the store, `before` the
\* deletes counter when the call was made and `failed` whether the store
\* raised.
IdleClearCall ==
    [pc |-> "idle", worker |-> "w1", pattern |-> <<>>, keys |-> {}, remaining |-> {},
     requests |-> <<>>, deleted |-> 0, removed |-> 0, before |-> 0, failed |-> FALSE,
     ret |-> 0]

\* Nothing has run: an empty store, zeroed counters, no call made.
Fresh ==
    /\ redis = [k \in {} |-> None]
    /\ stats = [w \in Procs |-> ZeroStats]
    /\ now = 0
    /\ runs = [r \in Runs |-> IdleRun]
    /\ calls = [r \in Runs |-> <<>>]
    /\ events = [r \in Runs |-> <<>>]
    /\ cacheSets = [r \in Runs |-> <<>>]
    /\ reply = NoCall
    /\ architect = [w \in Procs |-> 1]
    /\ celery = NoTasks
    /\ statusCall = IdleStatusCall
    /\ taskCalls = <<>>
    /\ clearCall = IdleClearCall

\* datetime.utcnow(): a reading not before the previous one; `ticks` are the
\* amounts the clock may have advanced by since.
ClockReadings(ticks) == {t \in {now + d : d \in ticks} : t <= MaxClock}


(* ---------------------------- TaskManager ------------------------------ *)

\* The cache key of a task's status snapshot: f"task:{task_id}".
TaskKey(task_id) == <<"task:", task_id>>

(* -------------------- PromptOrchestrator.generate_prompt --------------- *)

\* The while condition: `max_iterations is None or iteration < max_iterations`.
LoopCondition(max_iterations, iteration) ==
    max_iterations = None \/ iteration < TheValue(max_iterations)

\* The increment left out.
NextIteration_NoIncrement(iteration) == iteration

\* `iteration += 1` at the head of the loop body.
NextIteration(iteration) == iteration + 1

\* `>` written for `>=`.
TargetReached_Strict(score) == score > config.MIN_ACCEPTABLE_SCORE

\* First check after an evaluation: `score >= self.config.MIN_ACCEPTABLE_SCORE`.
TargetReached(score) == score >= config.MIN_ACCEPTABLE_SCORE

\* The budget check off by one, stopping an iteration early.
BudgetExhausted_OneEarly(max_iterations, iteration) ==
    max_iterations # None /\ iteration >= TheValue(max_iterations) - 1

\* `>` written for `>=`: the last evaluation is followed by a refine.
BudgetExhausted_Late(max_iterations, iteration) ==
    max_iterations # None /\ iteration > TheValue(max_iterations)

\* Second check: `max_iterations is not None and iteration >= max_iterations`.
BudgetExhausted(max_iterations, iteration) ==
    max_iterations # None /\ iteration >= TheValue(max_iterations)

\* The budget check made before the score check.
Outcome_BudgetFirst(score, max_iterations, iteration) ==
    IF BudgetExhausted(max_iterations, iteration) THEN "budget exhausted"
    ELSE IF TargetReached(score) THEN "target reached"
    ELSE "none"

\* The two checks after an evaluation, in the order of the code: the break
\* taken, named by the message it prints, or "none" when the loop goes on.
Outcome(score, max_iterations, iteration) ==
    IF TargetReached(score) THEN "target reached"
    ELSE IF BudgetExhausted(max_iterations, iteration) THEN "budget exhausted"
    ELSE "none"

\* cache_key = f"prompt_gen:{hash(requirements)}" as computed in process w.
RunCacheKey(w, requirements) == <<"prompt_gen:", PyHash(hashSeed[w], requirements)>>

\* The record numbered from 0.
IterationRecord_ZeroBased(iteration, prompt, evaluation, timestamp) ==
    [iteration |-> iteration - 1, prompt |-> prompt, score |-> evaluation.score,
     feedback |-> evaluation, timestamp |-> timestamp]

\* The iteration record built after an evaluation.
IterationRecord(iteration, prompt, evaluation, timestamp) ==
    [iteration |-> iteration, prompt |-> prompt, score |-> evaluation.score,
     feedback |-> evaluation, timestamp |-> timestamp]

\* The progress event sent before an evaluation (its timestamp, and that of
\* the EVALUATED event, are left out).
EvaluatingEvent(task_id, iteration) ==
    [task_id |-> task_id, iteration |-> iteration, status |-> "EVALUATING",
     current_score |-> None, details |-> None]

\* The EVALUATED event without the score.
EvaluatedEvent_NoScore(task_id, iteration, result) ==
    [task_id |-> task_id, iteration |-> iteration, status |-> "EVALUATED",
     current_score |-> None, details |-> Some(result)]

\* The progress event sent after an evaluation.
EvaluatedEvent(task_id, iteration, result) ==
    [task_id |-> task_id, iteration |-> iteration, status |-> "EVALUATED",
     current_score |-> Some(result.score), details |-> Some(result)]

\* The final score taken from the first record.
FinalResult_FirstScore(run, completed_at) ==
    [task_id |-> TheValue(run.task_id), final_prompt |-> TheValue(run.current_prompt),
     final_score |-> run.current_run_results[1].score,
     iterations |-> run.current_run_results,
     requirements |-> run.requirements, completed_at |-> completed_at]

\* final_result as assembled after the loop.
FinalResult(run, completed_at) ==
    [task_id |-> TheValue(run.task_id), final_prompt |-> TheValue(run.current_prompt),
     final_score |-> TheValue(run.score), iterations |-> run.current_run_results,
     requirements |-> run.requirements, completed_at |-> completed_at]

\* Entry of generate_prompt up to the first await: the effective budget, the
\* task id, the cache key, the cache lookup and the return on a hit. `in` holds
\* the sets the call's arguments and its worker process are drawn from.
GeneratePrompt(r, in) ==
    /\ runs[r].pc = "idle"
    /\ \E w \in in.workers, requirements \in in.requirements,
          max_iterations \in in.max_iterations, task_id \in in.task_id,
          progress_callback \in in.progress_callback, redisError \in BOOLEAN :
        LET effective == PyOr(max_iterations, config.MAX_ITERATIONS)
            tid == IF task_id # None THEN TheValue(task_id) ELSE uuid4(r)
            cache_key == RunCacheKey(w, requirements)
            got == CacheGet(w, cache_key, None, redisError)
            entered == [runs[r] EXCEPT
                          !.worker = w, !.requirements = requirements,
                          !.max_iterations = effective, !.task_id = Some(tid),
                          !.progress_callback = progress_callback,
                          !.cache_key = Some(cache_key),
                          !.after = {q \in Runs : runs[q].pc \in {"done", "failed"}}]
        IN /\ stats' = got.stats
           /\ runs' = [runs EXCEPT ![r] =
                  IF got.ret # None
                  THEN [entered EXCEPT !.pc = "done", !.lookup = "hit",
                                       !.returned = got.ret]
                  ELSE [entered EXCEPT !.pc = "generate",
                           !.lookup = IF redisError THEN "error" ELSE "miss"]]
    /\ UNCHANGED <<architect, clearCall, taskVars, reply, config, hashSeed, redis, now, calls, events, cacheSets>>

\* self.version += 1 in PromptArchitect.refine_prompt.
NextVersion(version) == version + 1

\* The failed call is caught and made again.
Propagate_Retry(r, call, error) ==
    /\ calls' = [calls EXCEPT ![r] = Append(@, call)]
    /\ UNCHANGED <<taskVars, reply, config, hashSeed, redis, stats, now, runs, events, cacheSets>>

\* A collaborator call that raised: the exception leaves generate_prompt.
Propagate(r, call, error) ==
    /\ calls' = [calls EXCEPT ![r] = Append(@, call)]
    /\ runs' = [runs EXCEPT ![r].pc = "failed", ![r].raised = Some(error)]
    /\ UNCHANGED <<taskVars, reply, config, hashSeed, redis, stats, now, events, cacheSets>>

\* await self.architect.generate_initial_prompt(requirements), then
\* iteration = 0 and current_run_results = []. The request sent to the model
\* is formatted with the architect's version.
GenerateInitialPrompt(r, in) ==
    /\ runs[r].pc = "generate"
    /\ UNCHANGED <<architect, clearCall>>
    /\ LET call == [op |-> "generate_initial_prompt", prompt |-> None,
                    feedback |-> None, requirements |-> runs[r].requirements,
                    version |-> Some(architect[runs[r].worker])]
       IN \/ Propagate(r, call @@ [ok |-> FALSE, out |-> None],
                       "GenerationFailure")
          \/ \E p \in in.prompts :
                /\ calls' = [calls EXCEPT ![r] =
                      Append(@, call @@ [ok |-> TRUE, out |-> Some(p)])]
                /\ runs' = [runs EXCEPT ![r].pc = "loop",
                                        ![r].current_prompt = Some(p),
                                        ![r].iteration = 0,
                                        ![r].current_run_results = <<>>]
                /\ UNCHANGED <<taskVars, reply, config, hashSeed, redis, stats, now, events, cacheSets>>

\* What a call progress_callback(progress_data) may do: return, raise, or
\* never return; "none" when the caller supplied no callback.
CallbackOutcomes(run, in) == IF run.progress_callback THEN in.callbacks ELSE {"none"}

\* Where generate_prompt is after the call: it goes on to `next` when the
\* callback returned; the exception of a callback that raised leaves
\* generate_prompt; a callback that never returns leaves it inside the call.
AfterCallback(cb, next) ==
    CASE cb = "raises" -> "failed"
      [] cb = "hangs" -> "blocked"
      [] OTHER -> next

\* The exception generate_prompt ends with, if the callback raised.
CallbackRaised(cb, raised) == IF cb = "raises" THEN Some("CallbackError") ELSE raised

\* The head of the while loop up to the await of the evaluation: the loop
\* condition, the increment, the EVALUATING event and the call of the callback
\* with it.
LoopHead(r, in) ==
    /\ runs[r].pc = "loop"
    /\ runs[r].max_iterations # None \/ runs[r].iteration < IterCap
    /\ IF LoopCondition(runs[r].max_iterations, runs[r].iteration)
       THEN \E cb \in CallbackOutcomes(runs[r], in) :
            LET k == NextIteration(runs[r].iteration)
            IN /\ runs' = [runs EXCEPT ![r].pc = AfterCallback(cb, "evaluate"),
                                       ![r].iteration = k,
                                       ![r].raised = CallbackRaised(cb, @)]
               /\ events' = [events EXCEPT ![r] =
                     IF runs[r].progress_callback
                     THEN Append(@, EvaluatingEvent(TheValue(runs[r].task_id), k))
                     ELSE @]
       ELSE /\ runs' = [runs EXCEPT ![r].pc = "finish"]
            /\ UNCHANGED events
    /\ UNCHANGED <<architect, clearCall, taskVars, reply, config, hashSeed, redis, stats, now, calls, cacheSets>>

\* await self._evaluate_prompt_cached(current_prompt), the iteration record,
\* the EVALUATED event, the call of the callback with it and the two
\* termination checks.
Evaluate(r, in) ==
    /\ runs[r].pc = "evaluate"
    /\ UNCHANGED <<architect, clearCall>>
    /\ LET prompt == TheValue(runs[r].current_prompt)
           call == [op |-> "evaluate", prompt |-> Some(prompt),
                    feedback |-> None, requirements |-> runs[r].requirements,
                    version |-> None]
       IN \/ Propagate(r, call @@ [ok |-> FALSE, out |-> None], "EvaluationFailure")
          \/ \E s \in in.scores, t \in ClockReadings(in.ticks),
                cb \in CallbackOutcomes(runs[r], in) :
                LET evaluation == [score |-> s]
                    result == IterationRecord(runs[r].iteration, prompt, evaluation, t)
                    outcome == Outcome(s, runs[r].max_iterations, runs[r].iteration)
                    stop == outcome # "none"
                IN /\ calls' = [calls EXCEPT ![r] =
                         Append(@, call @@ [ok |-> TRUE, out |-> Some(evaluation)])]
                   /\ now' = t
                   /\ runs' = [runs EXCEPT
                         ![r].score = Some(s),
                         ![r].current_run_results = Append(@, result),
                         ![r].pc = AfterCallback(cb, IF stop THEN "finish" ELSE "refine"),
                         ![r].outcome = IF AfterCallback(cb, "checks") = "checks"
                                        THEN outcome ELSE "none",
                         ![r].raised = CallbackRaised(cb, @)]
                   /\ events' = [events EXCEPT ![r] =
                         IF runs[r].progress_callback
                         THEN Append(@, EvaluatedEvent(TheValue(runs[r].task_id),
                                                       runs[r].iteration, result))
                         ELSE @]
                   /\ UNCHANGED <<taskVars, reply, config, hashSeed, redis, stats, cacheSets>>

\* The evaluation of the first iteration kept for every refine.
Evaluation_First(run) == run.current_run_results[1].feedback

\* The local `evaluation` after `evaluation = await
\* self._evaluate_prompt_cached(current_prompt)`: the one the last record holds
\* as its feedback.
Evaluation(run) == run.current_run_results[Len(run.current_run_results)].feedback

\* await self.architect.refine_prompt(current_prompt, evaluation, requirements):
\* `self.version += 1` before the request is formatted and sent, whether or
\* not the model then answers.
RefinePrompt(r, in) ==
    /\ runs[r].pc = "refine"
    /\ architect' = [architect EXCEPT ![runs[r].worker] = NextVersion(@)]
    /\ UNCHANGED clearCall
    /\ LET call == [op |-> "refine_prompt", prompt |-> runs[r].current_prompt,
                    feedback |-> Some(Evaluation(runs[r])),
                    requirements |-> runs[r].requirements,
                    version |-> Some(NextVersion(architect[runs[r].worker]))]
       IN \/ Propagate(r, call @@ [ok |-> FALSE, out |-> None], "GenerationFailure")
          \/ \E p \in in.prompts :
                /\ calls' = [calls EXCEPT ![r] =
                      Append(@, call @@ [ok |-> TRUE, out |-> Some(p)])]
                /\ runs' = [runs EXCEPT ![r].pc = "loop", ![r].current_prompt = Some(p)]
                /\ UNCHANGED <<taskVars, reply, config, hashSeed, redis, stats, now, events, cacheSets>>

\* The number of run-level cache.set calls the runs have made so far; each
\* call is recorded with its place in that order (nth).
WritesSoFar == Len(cacheSets["r1"]) + Len(cacheSets["r2"])

\* After the loop: final_result, the write to the run-level cache, the return.
\* Reading `score` before any evaluation assigned it raises UnboundLocalError.
Finish(r, in) ==
    /\ runs[r].pc = "finish"
    /\ IF runs[r].score = None
       THEN /\ runs' = [runs EXCEPT ![r].pc = "failed",
                                    ![r].raised = Some("UnboundLocalError")]
            /\ UNCHANGED <<architect, clearCall, taskVars, reply, config, hashSeed, redis, stats, now, calls, events, cacheSets>>
       ELSE \E t \in ClockReadings(in.ticks), redisError \in BOOLEAN :
            LET final_result == FinalResult(runs[r], t)
                key == TheValue(runs[r].cache_key)
                put == CacheSet(runs[r].worker, key, final_result,
                                Some(RUN_CACHE_TTL), redisError)
            IN /\ now' = t
               /\ redis' = put.redis
               /\ stats' = put.stats
               /\ cacheSets' = [cacheSets EXCEPT ![r] =
                     Append(@, [key |-> key, value |-> final_result,
                                ttl |-> RUN_CACHE_TTL, ok |-> put.ret,
                                nth |-> WritesSoFar + 1])]
               /\ runs' = [runs EXCEPT ![r].pc = "done",
                                       ![r].returned = Some(final_result)]
               /\ UNCHANGED <<architect, clearCall, taskVars, reply, config, hashSeed, calls, events>>

(* ------------------------- the store's clock --------------------------- *)

\* The rest of the time to live of an entry elapses.
RedisExpire(name) ==
    /\ Live(name)
    /\ redis[name].ttl # None
    /\ redis' = [redis EXCEPT ![name].age = 2 * TheValue(redis[name].ttl)]
    /\ reply' = NoCall
    /\ UNCHANGED <<architect, clearCall, taskVars, config, hashSeed, stats, now, runs, calls, events, cacheSets>>

(* --------------------------- specifications ---------------------------- *)

\* Spec: two generate_prompt calls, on either worker process, interleaved in
\* any way, sharing the store. Budgets are 1 or 2 and the clock stands still.
PairInputs ==
    [workers |-> Procs, requirements |-> Requirements,
     max_iterations |-> {None, Some(2)}, task_id |-> {None},
     progress_callback |-> {FALSE},
     prompts |-> Prompts,
     scores |-> {MIN_ACCEPTABLE_SCORE - 50, MIN_ACCEPTABLE_SCORE},
     ticks |-> {0}, callbacks |-> {"returns"}]

Init ==
    /\ config = [MAX_ITERATIONS |-> Some(1),
                 MIN_ACCEPTABLE_SCORE |-> MIN_ACCEPTABLE_SCORE]
    /\ hashSeed \in {h \in [Procs -> Seeds] : h["w1"] = "seedA"}
    /\ Fresh

\* The two calls are interchangeable: r1 names the one that is made first.
Startable(r) == r = "r1" \/ runs["r1"].pc # "idle"

Next ==
    \/ \E r \in Runs : Startable(r) /\ GeneratePrompt(r, PairInputs)
    \/ \E r \in Runs : GenerateInitialPrompt(r, PairInputs)
    \/ \E r \in Runs : LoopHead(r, PairInputs)
    \/ \E r \in Runs : Evaluate(r, PairInputs)
    \/ \E r \in Runs : RefinePrompt(r, PairInputs)
    \/ \E r \in Runs : Finish(r, PairInputs)
    \/ \E name \in DOMAIN redis : RedisExpire(name)

Spec == Init /\ [][Next]_vars

\* SpecLoop: one generate_prompt call on worker w1 with every budget (argument
\* and configuration), every score, both kinds of caller and a running clock.
LoopInputs ==
    [workers |-> {"w1"}, requirements |-> {"reqA"},
     max_iterations |-> MaxIterationsArgs, task_id |-> TaskIdArgs,
     progress_callback |-> BOOLEAN,
     prompts |-> Prompts, scores |-> Scores, ticks |-> {0, 1},
     callbacks |-> {"returns"}]

InitLoop ==
    /\ config \in [MAX_ITERATIONS : ConfigMaxIterations,
                   MIN_ACCEPTABLE_SCORE : {MIN_ACCEPTABLE_SCORE}]
    /\ hashSeed = [w \in Procs |-> "seedA"]
    /\ Fresh

NextLoop ==
    \/ GeneratePrompt("r1", LoopInputs)
    \/ GenerateInitialPrompt("r1", LoopInputs)
    \/ LoopHead("r1", LoopInputs)
    \/ Evaluate("r1", LoopInputs)
    \/ RefinePrompt("r1", LoopInputs)
    \/ Finish("r1", LoopInputs)
    \/ \E name \in DOMAIN redis : RedisExpire(name)

SpecLoop == InitLoop /\ [][NextLoop]_vars

\* SpecCallback: one generate_prompt call whose progress_callback, when one is
\* supplied, may return, raise or never return at each of its calls. Every
\* run has a finite budget (the configuration's when the argument is None).
CallbackInputs ==
    [workers |-> {"w1"}, requirements |-> {"reqA"},
     max_iterations |-> {None, Some(1), Some(MaxIter)}, task_id |-> TaskIdArgs,
     progress_callback |-> BOOLEAN,
     prompts |-> {"p1"},
     scores |-> {MIN_ACCEPTABLE_SCORE - 50, MIN_ACCEPTABLE_SCORE},
     ticks |-> {0}, callbacks |-> {"returns", "raises", "hangs"}]

InitCallback ==
    /\ config = [MAX_ITERATIONS |-> Some(2),
                 MIN_ACCEPTABLE_SCORE |-> MIN_ACCEPTABLE_SCORE]
    /\ hashSeed = [w \in Procs |-> "seedA"]
    /\ Fresh

NextCallback ==
    \/ GeneratePrompt("r1", CallbackInputs)
    \/ GenerateInitialPrompt("r1", CallbackInputs)
    \/ LoopHead("r1", CallbackInputs)
    \/ Evaluate("r1", CallbackInputs)
    \/ RefinePrompt("r1", CallbackInputs)
    \/ Finish("r1", CallbackInputs)
    \/ \E name \in DOMAIN redis : RedisExpire(name)

\* A step of the coroutine of run r once generate_prompt has been entered.
RunStep(r, in) ==
    \/ GenerateInitialPrompt(r, in)
    \/ LoopHead(r, in)
    \/ Evaluate(r, in)
    \/ RefinePrompt(r, in)
    \/ Finish(r, in)

\* The event loop resumes the coroutine whenever what it awaits has completed,
\* and every collaborator call completes (with a value or an exception).
SpecCallback ==
    InitCallback /\ [][NextCallback]_vars /\ WF_vars(RunStep("r1", CallbackInputs))

(* --------------------------- PromptEvaluator --------------------------- *)

\* Lines of the text the model returns that are followed.
MaxLines == 2

\* The bounds of `max(0, min(1000, ...))`.
SCORE_MIN == 0
SCORE_MAX == 1000

\* A line of the text is the sequence of fields line.split(':') gives. A field
\* is [digits |-> n] when int() reads it (surrounding blanks stripped) as the
\* integer n, else [chars |-> s].
ScoreTag == [chars |-> "SCORE"]
IntsInText == {0 - 5, MIN_ACCEPTABLE_SCORE - 50, MIN_ACCEPTABLE_SCORE, SCORE_MAX + 500}
ScoreLine(field) == <<ScoreTag, field>>
EvaluationLines ==
    {ScoreLine([digits |-> n]) : n \in IntsInText}
        \cup {ScoreLine([chars |-> "850/1000"]),
              <<[chars |-> "SCORE"]>>,
              <<[chars |-> "The prompt is clear."]>>}

\* The texts the model may answer an evaluation request with.
RECURSIVE TextsUpTo(_)
TextsUpTo(n) ==
    IF n = 0 THEN {<<>>}
    ELSE TextsUpTo(n - 1)
            \cup {Append(text, line) : text \in {t \in TextsUpTo(n - 1) : Len(t) = n - 1},
                                       line \in EvaluationLines}
EvaluationTexts == TextsUpTo(MaxLines)

\* The text `SCORE: n`.
ScoreText(n) == <<ScoreLine([digits |-> n])>>

\* line.strip().startswith('SCORE:').
IsScoreLine(line) == Len(line) >= 2 /\ line[1] = ScoreTag

\* int(field.strip()): the integer, or None for the ValueError.
IntOf(field) == IF "digits" \in DOMAIN field THEN Some(field.digits) ELSE None

\* next((line for line in evaluation_text.split('\n') if ...), None).
ScoreLineOf(text) ==
    IF \E i \in 1..Len(text) : IsScoreLine(text[i])
    THEN Some(text[CHOOSE i \in 1..Len(text) :
                      /\ IsScoreLine(text[i])
                      /\ \A j \in 1..(i - 1) : ~IsScoreLine(text[j])])
    ELSE None

\* BaseAgent.parse_evaluation, its score: 0 unless the first SCORE: line holds
\* an integer after the colon (the feedback and the suggestions are left out).
ParseEvaluation(text) ==
    LET score_line == ScoreLineOf(text)
    IN [score |-> IF score_line = None THEN 0
                  ELSE IF IntOf(TheValue(score_line)[2]) = None THEN 0
                  ELSE TheValue(IntOf(TheValue(score_line)[2]))]

Min(a, b) == IF a < b THEN a ELSE b
Max(a, b) == IF a > b THEN a ELSE b

\* The parsed score returned as it is.
EvaluatePrompt_NoClamp(text) == ParseEvaluation(text)

\* PromptEvaluator.evaluate_prompt once call_llm has returned `text`:
\* evaluation["score"] = max(0, min(1000, evaluation.get("score", 0))).
EvaluatePrompt(text) ==
    [ParseEvaluation(text) EXCEPT !.score = Max(SCORE_MIN, Min(SCORE_MAX, @))]

(* ------------------------ the cached evaluation ------------------------ *)

\* ttl of the evaluation cache: @cached(ttl=86400).
EVAL_CACHE_TTL == 86400

\* The key of the evaluation cache: the exact text of the prompt, in a
\* namespace of its own.
EvalCacheKey(prompt) == <<"evaluation:", prompt>>

\* The call record of _evaluate_prompt_cached(current_prompt); `evaluator` is
\* the number of calls of evaluator.evaluate_prompt it made and `text` what
\* the model answered that call with (None when it raised or was not made).
CachedEvaluationCall(run, ok, out, evaluator, text) ==
    [op |-> "evaluate", prompt |-> run.current_prompt, feedback |-> None,
     requirements |-> run.requirements, version |-> None,
     ok |-> ok, out |-> out, evaluator |-> evaluator, text |-> text]

\* The iteration after `evaluation = await self._evaluate_prompt_cached(...)`
\* returned: the iteration record, the EVALUATED event, the call of the
\* callback with it and the two termination checks.
RecordEvaluation(r, in, call, evaluation) ==
    \E t \in ClockReadings(in.ticks), cb \in CallbackOutcomes(runs[r], in) :
        LET result == IterationRecord(runs[r].iteration, TheValue(runs[r].current_prompt),
                                      evaluation, t)
            outcome == Outcome(evaluation.score, runs[r].max_iterations, runs[r].iteration)
        IN /\ calls' = [calls EXCEPT ![r] = Append(@, call)]
           /\ now' = t
           /\ runs' = [runs EXCEPT
                 ![r].score = Some(evaluation.score),
                 ![r].current_run_results = Append(@, result),
                 ![r].pc = AfterCallback(cb, IF outcome # "none" THEN "finish" ELSE "refine"),
                 ![r].outcome = IF AfterCallback(cb, "checks") = "checks"
                                THEN outcome ELSE "none",
                 ![r].raised = CallbackRaised(cb, @)]
           /\ events' = [events EXCEPT ![r] =
                 IF runs[r].progress_callback
                 THEN Append(@, EvaluatedEvent(TheValue(runs[r].task_id),
                                               runs[r].iteration, result))
                 ELSE @]

\* _evaluate_prompt_cached up to the await of the evaluator: the lookup in the
\* evaluation cache and, on a hit, the return of the cached evaluation.
EvaluateLookup(r, in) ==
    /\ runs[r].pc = "evaluate"
    /\ \E redisError \in BOOLEAN :
        LET got == CacheGet(runs[r].worker,
                            EvalCacheKey(TheValue(runs[r].current_prompt)),
                            None, redisError)
        IN /\ stats' = got.stats
           /\ IF got.ret # None
              THEN RecordEvaluation(r, in,
                       CachedEvaluationCall(runs[r], TRUE, got.ret, 0, None),
                       TheValue(got.ret))
              ELSE /\ runs' = [runs EXCEPT ![r].pc = "evaluator"]
                   /\ UNCHANGED <<calls, now, events>>
    /\ UNCHANGED <<architect, clearCall, taskVars, reply, config, hashSeed, redis, cacheSets>>

\* The rest of _evaluate_prompt_cached on a miss: the evaluator is called; it
\* raises, or the model answers with a text and evaluate_prompt returns the
\* evaluation parsed from it, which is stored under the prompt's key and
\* returned. The exception leaves generate_prompt.
EvaluateMiss(r, in) ==
    /\ runs[r].pc = "evaluator"
    /\ UNCHANGED <<architect, clearCall>>
    /\ \/ Propagate(r, CachedEvaluationCall(runs[r], FALSE, None, 1, None), "EvaluationFailure")
       \/ \E text \in in.texts, redisError \in BOOLEAN :
            LET evaluation == EvaluatePrompt(text)
                put == CacheSet(runs[r].worker,
                                EvalCacheKey(TheValue(runs[r].current_prompt)),
                                evaluation, Some(EVAL_CACHE_TTL), redisError)
            IN /\ redis' = put.redis
               /\ stats' = put.stats
               /\ RecordEvaluation(r, in,
                      CachedEvaluationCall(runs[r], TRUE, Some(evaluation), 1, Some(text)),
                      evaluation)
               /\ UNCHANGED <<taskVars, reply, config, hashSeed, cacheSets>>

\* SpecEval: two generate_prompt calls on one worker process, the second made
\* once the first has ended, whose evaluations go through the evaluation
\* cache; the store may fail at any call and its entries may expire.
EvalInputs ==
    [workers |-> {"w1"}, requirements |-> {"reqA"},
     max_iterations |-> {Some(2)}, task_id |-> {None},
     progress_callback |-> {FALSE},
     prompts |-> Prompts,
     texts |-> {ScoreText(MIN_ACCEPTABLE_SCORE - 50), ScoreText(MIN_ACCEPTABLE_SCORE)},
     ticks |-> {0}, callbacks |-> {"returns"}]

\* The second call: the same requirements or others, and one iteration.
SecondEvalInputs ==
    [EvalInputs EXCEPT !.requirements = Requirements, !.max_iterations = {Some(1)}]

\* The inputs of call r.
EvalInputsOf(r) == IF r = "r1" THEN EvalInputs ELSE SecondEvalInputs

InitEval ==
    /\ config = [MAX_ITERATIONS |-> Some(2),
                 MIN_ACCEPTABLE_SCORE |-> MIN_ACCEPTABLE_SCORE]
    /\ hashSeed = [w \in Procs |-> "seedA"]
    /\ Fresh

\* r1 is the call made first; r2 is made after r1 has returned or raised.
Ended(r) == runs[r].pc \in {"done", "failed"}
StartableAfter(r) == r = "r1" \/ Ended("r1")

NextEval ==
    \/ \E r \in Runs : StartableAfter(r) /\ GeneratePrompt(r, EvalInputsOf(r))
    \/ \E r \in Runs : GenerateInitialPrompt(r, EvalInputsOf(r))
    \/ \E r \in Runs : LoopHead(r, EvalInputsOf(r))
    \/ \E r \in Runs : EvaluateLookup(r, EvalInputsOf(r))
    \/ \E r \in Runs : EvaluateMiss(r, EvalInputsOf(r))
    \/ \E r \in Runs : RefinePrompt(r, EvalInputsOf(r))
    \/ \E r \in Runs : Finish(r, EvalInputsOf(r))
    \/ \E name \in DOMAIN redis : RedisExpire(name)

SpecEval == InitEval /\ [][NextEval]_vars

\* SpecScore: one generate_prompt call of one iteration whose evaluator is
\* answered by the model with any of the texts; the store may fail at any
\* call.
ScoreInputs ==
    [workers |-> {"w1"}, requirements |-> {"reqA"},
     max_iterations |-> {Some(1)}, task_id |-> {None},
     progress_callback |-> {FALSE},
     prompts |-> Prompts,
     texts |-> EvaluationTexts,
     ticks |-> {0}, callbacks |-> {"returns"}]

NextScore ==
    \/ GeneratePrompt("r1", ScoreInputs)
    \/ GenerateInitialPrompt("r1", ScoreInputs)
    \/ LoopHead("r1", ScoreInputs)
    \/ EvaluateLookup("r1", ScoreInputs)
    \/ EvaluateMiss("r1", ScoreInputs)
    \/ Finish("r1", ScoreInputs)

SpecScore == InitEval /\ [][NextScore]_vars

\* SpecFlight: two generate_prompt calls for the same requirements, of one
\* iteration each, on either worker process and interleaved in any way, whose
\* evaluations go through the evaluation cache; the store may fail at any
\* call and its entries may expire.
FlightInputs ==
    [workers |-> Procs, requirements |-> {"reqA"},
     max_iterations |-> {Some(1)}, task_id |-> {None},
     progress_callback |-> {FALSE},
     prompts |-> Prompts,
     texts |-> {ScoreText(MIN_ACCEPTABLE_SCORE - 50), ScoreText(MIN_ACCEPTABLE_SCORE)},
     ticks |-> {0}, callbacks |-> {"returns"}]

NextFlight ==
    \/ \E r \in Runs : Startable(r) /\ GeneratePrompt(r, FlightInputs)
    \/ \E r \in Runs : GenerateInitialPrompt(r, FlightInputs)
    \/ \E r \in Runs : LoopHead(r, FlightInputs)
    \/ \E r \in Runs : EvaluateLookup(r, FlightInputs)
    \/ \E r \in Runs : EvaluateMiss(r, FlightInputs)
    \/ \E r \in Runs : Finish(r, FlightInputs)
    \/ \E name \in DOMAIN redis : RedisExpire(name)

SpecFlight == InitEval /\ [][NextFlight]_vars

\* SpecHit: a first generate_prompt call on worker w1 and, once it has ended,
\* a second call for the same requirements or others, on either worker, with
\* or without a task id and a callback of its own; the clock runs, the store
\* may fail at any call and its entries may expire.
HitInputs ==
    [workers |-> {"w1"}, requirements |-> {"reqA"},
     max_iterations |-> {Some(2)}, task_id |-> TaskIdArgs,
     progress_callback |-> {FALSE},
     prompts |-> Prompts,
     scores |-> {MIN_ACCEPTABLE_SCORE - 50, MIN_ACCEPTABLE_SCORE},
     ticks |-> {0, 1}, callbacks |-> {"returns"}]

SecondHitInputs ==
    [HitInputs EXCEPT !.workers = Procs, !.requirements = Requirements,
                      !.max_iterations = {Some(1)}, !.progress_callback = BOOLEAN]

HitInputsOf(r) == IF r = "r1" THEN HitInputs ELSE SecondHitInputs

NextHit ==
    \/ \E r \in Runs : StartableAfter(r) /\ GeneratePrompt(r, HitInputsOf(r))
    \/ \E r \in Runs : GenerateInitialPrompt(r, HitInputsOf(r))
    \/ \E r \in Runs : LoopHead(r, HitInputsOf(r))
    \/ \E r \in Runs : Evaluate(r, HitInputsOf(r))
    \/ \E r \in Runs : RefinePrompt(r, HitInputsOf(r))
    \/ \E r \in Runs : Finish(r, HitInputsOf(r))
    \/ \E name \in DOMAIN redis : RedisExpire(name)

SpecHit == InitEval /\ [][NextHit]_vars

(* ----------------------- clients of CacheManager ----------------------- *)

\* Keys the callers of CacheManager use, and patterns they clear.
CacheKeys == {<<"celery">>, <<"task:", "t1">>}
ClearPatterns == {<<"*">>, <<"task:", "*">>}
\* Values given to set: a JSON document and a datetime, which json.dumps refuses.
CacheValues == {[py |-> "dict", doc |-> "a1"], [py |-> "datetime", doc |-> "now"]}
\* The default given to get: None (the parameter's default) or a value.
Defaults == {None, Some([py |-> "str", doc |-> "x"])}
\* The ttl given to set: None (settings.CACHE_TTL applies), 0 (no expiry) or seconds.
Ttls == {None, Some(0), Some(1)}
\* Keys of the broker, which uses the same Redis database as the cache.
ForeignNames == {<<"celery">>, <<"_kombu.binding.", "celery">>}
\* Bytes that are not JSON.
NotJson == [json |-> FALSE, doc |-> [py |-> "bytes", doc |-> "raw"]]

\* The sum of the counters of process w.
StatsTotal(w) ==
    stats[w].hits + stats[w].misses + stats[w].sets + stats[w].deletes + stats[w].errors

\* The value an operation returned, tagged with what it is: a flag for set,
\* delete and exists, a count for clear, the remaining time (or None) for
\* get_ttl, the value (or the default) for get.
Returned(op, v) ==
    CASE op \in {"set", "delete", "exists"} -> [flag |-> v]
      [] op = "clear" -> [count |-> v]
      [] op = "get_ttl" -> [remaining |-> v]
      [] OTHER -> [value |-> v]

\* The record of a CacheManager call and its outcome.
Reply(op, w, key, default, redisError, out) ==
    [op |-> op, worker |-> w, key |-> key, default |-> default,
     redisError |-> redisError, ret |-> Returned(op, out.ret),
     raised |-> out.raised, touched |-> out.touched]

\* The effect of a call whose outcome is `out`.
Called(out, rep) ==
    /\ redis' = out.redis
    /\ stats' = out.stats
    /\ reply' = rep
    /\ UNCHANGED <<architect, clearCall, taskVars, config, hashSeed, now, runs, calls, events, cacheSets>>

CacheGetCall(w) ==
    /\ StatsTotal(w) < MaxStat
    /\ \E key \in CacheKeys, default \in Defaults, redisError \in BOOLEAN :
           LET out == CacheGet(w, key, default, redisError)
           IN Called(out, Reply("get", w, key, default, redisError, out))

\* A value json.dumps refuses raises before the store is reached.
CacheSetCall(w) ==
    \E key \in CacheKeys, value \in CacheValues, ttl \in Ttls,
       redisError \in BOOLEAN :
        /\ StatsTotal(w) < MaxStat
        /\ redisError => JsonRepresentable(value)
        /\ LET out == CacheSet(w, key, value, ttl, redisError)
           IN Called(out, Reply("set", w, key, None, redisError, out)
                             @@ [value |-> value, ttl |-> ttl])

CacheDeleteCall(w) ==
    /\ StatsTotal(w) < MaxStat
    /\ \E key \in CacheKeys, redisError \in BOOLEAN :
           LET out == CacheDelete(w, key, redisError)
           IN Called(out, Reply("delete", w, key, None, redisError, out))

CacheClearCall(w) ==
    /\ StatsTotal(w) < MaxStat
    /\ \E pattern \in ClearPatterns, redisError \in BOOLEAN :
           LET out == CacheClear(w, pattern, redisError)
           IN Called(out, Reply("clear", w, pattern, None, redisError, out))

CacheGetTtlCall(w) ==
    /\ StatsTotal(w) < MaxStat
    /\ \E key \in CacheKeys, redisError \in BOOLEAN :
           LET out == CacheGetTtl(w, key, redisError)
           IN Called(out, Reply("get_ttl", w, key, None, redisError, out))

CacheExistsCall(w) ==
    /\ StatsTotal(w) < MaxStat
    /\ \E key \in CacheKeys, redisError \in BOOLEAN :
           LET out == CacheExists(w, key, redisError)
           IN Called(out, Reply("exists", w, key, None, redisError, out))

\* CacheManager.reset_stats().
ResetStats(w) ==
    /\ stats' = [stats EXCEPT ![w] = ZeroStats]
    /\ reply' = [op |-> "reset_stats", worker |-> w]
    /\ UNCHANGED <<architect, clearCall, taskVars, config, hashSeed, redis, now, runs, calls, events, cacheSets>>

\* Another client of the store writes bytes that are not JSON under a key of
\* the cache.
ForeignWrite(name) ==
    /\ redis' = RedisSet(name, None, NotJson)
    /\ reply' = NoCall
    /\ UNCHANGED <<architect, clearCall, taskVars, config, hashSeed, stats, now, runs, calls, events, cacheSets>>

\* Half a second of the time to live of an entry elapses and the entry stays
\* live.
RedisAge(name) ==
    /\ Live(name)
    /\ redis[name].ttl # None
    /\ redis[name].age < MaxAge
    /\ redis[name].age + 1 < 2 * TheValue(redis[name].ttl)
    /\ redis' = [redis EXCEPT ![name].age = @ + 1]
    /\ reply' = NoCall
    /\ UNCHANGED <<architect, clearCall, taskVars, config, hashSeed, stats, now, runs, calls, events, cacheSets>>

\* SpecCache: one process calling the operations of its CacheManager in any
\* order on a store that also holds the broker's keys, while time passes and
\* the store may fail at any call.
InitCache ==
    /\ config = [MAX_ITERATIONS |-> None,
                 MIN_ACCEPTABLE_SCORE |-> MIN_ACCEPTABLE_SCORE]
    /\ hashSeed = [w \in Procs |-> "seedA"]
    /\ redis = [name \in ForeignNames |-> [value |-> NotJson, ttl |-> None, age |-> 0]]
    /\ stats = [w \in Procs |-> ZeroStats]
    /\ now = 0
    /\ runs = [r \in Runs |-> IdleRun]
    /\ calls = [r \in Runs |-> <<>>]
    /\ events = [r \in Runs |-> <<>>]
    /\ cacheSets = [r \in Runs |-> <<>>]
    /\ reply = NoCall
    /\ architect = [w \in Procs |-> 1]
    /\ celery = NoTasks
    /\ statusCall = IdleStatusCall
    /\ taskCalls = <<>>
    /\ clearCall = IdleClearCall

NextCache ==
    \/ CacheGetCall("w1")
    \/ CacheSetCall("w1")
    \/ CacheDeleteCall("w1")
    \/ CacheClearCall("w1")
    \/ CacheGetTtlCall("w1")
    \/ CacheExistsCall("w1")
    \/ ResetStats("w1")
    \/ \E key \in CacheKeys : ForeignWrite(MakeKey(key))
    \/ \E name \in DOMAIN redis : RedisAge(name)
    \/ \E name \in DOMAIN redis : RedisExpire(name)

SpecCache == InitCache /\ [][NextCache]_vars

\* SpecRoundTrip: one process storing values of several Python types under
\* one key and reading them back, while time passes and the store may fail
\* at any call. A dict, a list and a string are values of the interchange
\* format; a tuple is accepted by json.dumps and written as an array.
RoundTripKey == <<"doc">>
JsonValues ==
    {[py |-> "dict", doc |-> "a1"], [py |-> "list", doc |-> "a1"],
     [py |-> "str", doc |-> "a1"]}
RoundTripValues == JsonValues \cup {[py |-> "tuple", doc |-> "a1"]}

SetValue(w) ==
    /\ StatsTotal(w) < MaxStat
    /\ \E value \in RoundTripValues, ttl \in {None, Some(1)}, redisError \in BOOLEAN :
           LET out == CacheSet(w, RoundTripKey, value, ttl, redisError)
           IN Called(out, Reply("set", w, RoundTripKey, None, redisError, out)
                             @@ [value |-> value, ttl |-> ttl])

GetValue(w) ==
    /\ StatsTotal(w) < MaxStat
    /\ \E redisError \in BOOLEAN :
           LET out == CacheGet(w, RoundTripKey, None, redisError)
           IN Called(out, Reply("get", w, RoundTripKey, None, redisError, out))

ExistsValue(w) ==
    /\ StatsTotal(w) < MaxStat
    /\ \E redisError \in BOOLEAN :
           LET out == CacheExists(w, RoundTripKey, redisError)
           IN Called(out, Reply("exists", w, RoundTripKey, None, redisError, out))

DeleteValue(w) ==
    /\ StatsTotal(w) < MaxStat
    /\ \E redisError \in BOOLEAN :
           LET out == CacheDelete(w, RoundTripKey, redisError)
           IN Called(out, Reply("delete", w, RoundTripKey, None, redisError, out))

InitRoundTrip ==
    /\ config = [MAX_ITERATIONS |-> None,
                 MIN_ACCEPTABLE_SCORE |-> MIN_ACCEPTABLE_SCORE]
    /\ hashSeed = [w \in Procs |-> "seedA"]
    /\ Fresh

NextRoundTrip ==
    \/ SetValue("w1")
    \/ GetValue("w1")
    \/ ExistsValue("w1")
    \/ DeleteValue("w1")
    \/ \E name \in DOMAIN redis : RedisAge(name)
    \/ \E name \in DOMAIN redis : RedisExpire(name)

SpecRoundTrip == InitRoundTrip /\ [][NextRoundTrip]_vars

(* ------------------------ CacheManager.clear --------------------------- *)

\* batch_size: the names one redis.delete of clear is given at most; 1000 in
\* the code, scaled here to the number of entries the store is followed with.
BatchSize == 2

\* Keys other processes store entries under.
ClearKeys == {<<"task:", "t1">>, <<"task:", "t2">>, <<"prompt_gen:", "h1">>}

\* keys[i:i + batch_size]: redis.keys lists the names in no particular order,
\* so the next batch is any batch_size of the remaining names, or all of them.
Batches(remaining) ==
    {batch \in SUBSET remaining :
        Cardinality(batch) = IF Cardinality(remaining) < BatchSize
                             THEN Cardinality(remaining) ELSE BatchSize}

\* A step of clear: the call and the counters of its process after it.
ClearStep(call, counters) ==
    /\ clearCall' = call
    /\ stats' = [stats EXCEPT ![call.worker] = counters]
    /\ reply' = NoCall

\* clear(pattern) up to the first redis.delete: redis.keys of the namespaced
\* pattern and `if not keys: return 0`; a RedisError is counted and 0 returned.
ClearList(w) ==
    /\ clearCall.pc \in {"idle", "returned"}
    /\ StatsTotal(w) < MaxStat
    /\ \E pattern \in ClearPatterns, redisError \in BOOLEAN :
        LET call == [IdleClearCall EXCEPT !.worker = w, !.pattern = pattern,
                                          !.before = stats[w].deletes]
            keys == RedisKeys(MakeKey(pattern))
        IN IF redisError
           THEN ClearStep([call EXCEPT !.pc = "returned", !.failed = TRUE],
                          Bump(w, "errors")[w])
           ELSE IF keys = {}
           THEN ClearStep([call EXCEPT !.pc = "returned"], stats[w])
           ELSE ClearStep([call EXCEPT !.pc = "batch", !.keys = keys,
                                       !.remaining = keys], stats[w])
    /\ UNCHANGED <<architect, taskVars, config, hashSeed, redis, now, runs, calls,
                   events, cacheSets>>

\* One turn of the for loop: `deleted += self.redis.delete(*batch)`; after the
\* last batch `self.stats['deletes'] += deleted` and `return deleted`. A
\* RedisError leaves the loop: it is counted and 0 is returned.
ClearBatch(w) ==
    /\ clearCall.pc = "batch"
    /\ clearCall.worker = w
    /\ \E batch \in Batches(clearCall.remaining), redisError \in BOOLEAN :
        LET reply_ == RedisDeleted(batch)
            deleted == clearCall.deleted + reply_
            call == [clearCall EXCEPT
                        !.remaining = @ \ batch,
                        !.requests = Append(@, Cardinality(batch)),
                        !.deleted = deleted,
                        !.removed = @ + reply_]
        IN IF redisError
           THEN /\ ClearStep([clearCall EXCEPT !.pc = "returned", !.failed = TRUE,
                                               !.ret = 0],
                             Bump(w, "errors")[w])
                /\ UNCHANGED redis
           ELSE /\ redis' = RedisDelete(batch)
                /\ IF call.remaining = {}
                   THEN ClearStep([call EXCEPT !.pc = "returned", !.ret = deleted],
                                  [stats[w] EXCEPT !.deletes = @ + deleted])
                   ELSE ClearStep(call, stats[w])
    /\ UNCHANGED <<architect, taskVars, config, hashSeed, now, runs, calls, events,
                   cacheSets>>

\* Another process stores an entry.
OtherSet(w) ==
    /\ StatsTotal(w) < MaxStat
    /\ \E key \in ClearKeys, ttl \in {Some(1)} :
          LET out == CacheSet(w, key, [py |-> "dict", doc |-> "a1"], ttl, FALSE)
          IN /\ redis' = out.redis
             /\ stats' = out.stats
             /\ reply' = NoCall
    /\ UNCHANGED <<architect, taskVars, clearCall, config, hashSeed, now, runs, calls,
                   events, cacheSets>>

\* SpecClear: process w1 calls clear, one call after the other, while process
\* w2 stores entries and entries expire; the store may fail at any request of
\* clear.
InitClear ==
    /\ config = [MAX_ITERATIONS |-> None,
                 MIN_ACCEPTABLE_SCORE |-> MIN_ACCEPTABLE_SCORE]
    /\ hashSeed = [w \in Procs |-> "seedA"]
    /\ Fresh

NextClear ==
    \/ ClearList("w1")
    \/ ClearBatch("w1")
    \/ OtherSet("w2")
    \/ \E name \in DOMAIN redis : RedisExpire(name)

SpecClear == InitClear /\ [][NextClear]_vars

(* ------------------- TaskManager and the queue ------------------------- *)

\* The number of TaskManager calls made.
MaxTaskCalls == 3

\* `ttl=300` of the snapshot written by get_task_status.
SNAPSHOT_TTL == 300

\* What a task returned, the exception it raised, and the exception the
\* result store holds for a revoked task.
TaskResult == [py |-> "dict", doc |-> "run result"]
TaskError == [py |-> "Exception", doc |-> "boom"]
TaskRevokedError == [py |-> "TaskRevokedError", doc |-> "revoked"]

\* str(exception).
Str(exception) == exception.doc

\* The cached value never used.
Truthy_Never(opt) == FALSE

\* Truthiness of what cache.get returned: None and an empty dict are falsy.
Truthy(opt) == opt # None /\ TheValue(opt) # [py |-> "dict", doc |-> "{}"]

\* PromptResponse(**task_info): task_id, status, progress, created_at and
\* updated_at are required fields.
ValidPromptResponse(task_info) ==
    {"task_id", "status", "progress", "created_at", "updated_at"} \subseteq DOMAIN task_info

\* get_task_status_endpoint: 404 for a falsy task_info, else the response
\* model built from it; a validation error of the model is a 500.
HttpStatus(task_info) ==
    IF ~Truthy(Some(task_info)) THEN 404
    ELSE IF ValidPromptResponse(task_info) THEN 200
    ELSE 500

\* AsyncResult._get_task_meta: the meta kept by the AsyncResult if it holds
\* one, else a query of the result store.
TaskMeta(call) ==
    IF call.cache # None THEN TheValue(call.cache) ELSE celery.meta[call.task_id]

\* AsyncResult._maybe_set_cache: the meta is kept once its state is ready.
MaybeSetCache(call) ==
    IF TaskMeta(call).status \in READY_STATES THEN Some(TaskMeta(call)) ELSE None

\* AsyncResult.ready(), successful(), failed().
Ready(call) == TaskMeta(call).status \in READY_STATES
Successful(call) == TaskMeta(call).status = "SUCCESS"
Failed(call) == TaskMeta(call).status = "FAILURE"

\* The AsyncResult after one of its properties was read.
AfterRead(call) ==
    [call EXCEPT !.cache = MaybeSetCache(call),
                 !.reads = IF call.cache # None THEN @ ELSE @ + 1]

\* The record of a TaskManager call that returned: what it returned (a
\* response for get_task_status, a flag for revoke_task), whether the answer
\* came from the cache, whether the cache was written or evicted, and the
\* state the result store held for the task when the call was made.
TaskCall(op, task_id, ret, raised, cached, wrote, state) ==
    [op |-> op, task_id |-> task_id, ret |-> ret, raised |-> raised,
     cached |-> cached, wrote |-> wrote, state |-> state]

\* get_task_status up to `result = AsyncResult(task_id)`: the cache lookup and
\* the return of a truthy cached value.
GetTaskStatus(w, task_id) ==
    /\ statusCall.pc \in {"idle", "returned"}
    /\ Len(taskCalls) < MaxTaskCalls
    /\ \E redisError \in BOOLEAN :
        LET got == CacheGet(w, TaskKey(task_id), None, redisError)
            call == [IdleStatusCall EXCEPT
                        !.worker = w, !.task_id = task_id,
                        !.lookup = IF redisError THEN "error"
                                   ELSE IF RedisGet(MakeKey(TaskKey(task_id))) # None
                                   THEN "hit" ELSE "miss"]
        IN /\ stats' = got.stats
           /\ reply' = Reply("get", w, TaskKey(task_id), None, redisError, got)
           /\ IF Truthy(got.ret)
              THEN /\ statusCall' = [call EXCEPT !.pc = "returned",
                                                 !.response = TheValue(got.ret)]
                   /\ taskCalls' = Append(taskCalls,
                         TaskCall("get_task_status", task_id,
                                  [response |-> TheValue(got.ret)], None, TRUE, FALSE,
                                  celery.meta[task_id].status)
                           @@ [http |-> HttpStatus(TheValue(got.ret))])
              ELSE /\ statusCall' = [call EXCEPT !.pc = "state"]
                   /\ UNCHANGED taskCalls
    /\ UNCHANGED <<architect, clearCall, celery, config, hashSeed, redis, now, runs, calls, events, cacheSets>>

\* A step of get_task_status that only reads the AsyncResult.
ReadStep(call) ==
    /\ statusCall' = call
    /\ reply' = NoCall
    /\ UNCHANGED <<architect, clearCall, celery, taskCalls, config, hashSeed, redis, stats, now,
                   runs, calls, events, cacheSets>>

\* 'task_id': task_id, 'status': result.state.
ReadState ==
    /\ statusCall.pc = "state"
    /\ ReadStep([AfterRead(statusCall) EXCEPT
                    !.pc = "ready",
                    !.response = [NoResponse EXCEPT
                                    !.task_id = statusCall.task_id,
                                    !.status = TaskMeta(statusCall).status]])

\* 'ready': result.ready().
ReadReady ==
    /\ statusCall.pc = "ready"
    /\ ReadStep([AfterRead(statusCall) EXCEPT
                    !.pc = "successful", !.response.ready = Ready(statusCall)])

\* 'successful': result.successful().
ReadSuccessful ==
    /\ statusCall.pc = "successful"
    /\ ReadStep([AfterRead(statusCall) EXCEPT
                    !.pc = "failed", !.response.successful = Successful(statusCall)])

\* 'failed': result.failed().
ReadFailed ==
    /\ statusCall.pc = "failed"
    /\ ReadStep([AfterRead(statusCall) EXCEPT
                    !.pc = "result", !.response.failed = Failed(statusCall)])

\* `if result.ready():` then response['result'], or response['error'] and
\* response['traceback']. The first ready state read is kept by the
\* AsyncResult, so the reads that follow it see the same meta.
WithResult(response, meta) ==
    IF meta.status \notin READY_STATES THEN response
    ELSE IF meta.status = "SUCCESS"
    THEN [response EXCEPT !.result = Some(TheValue(meta.result))]
    ELSE [response EXCEPT !.error = Some(Str(TheValue(meta.result))),
                          !.traceback = Some(meta.traceback)]

ReadResult ==
    /\ statusCall.pc = "result"
    /\ ReadStep([AfterRead(statusCall) EXCEPT
                    !.pc = "cache",
                    !.response = WithResult(@, TaskMeta(statusCall))])

\* `if result.ready():` before the cache.set.
ShouldCache(call) == Ready(call)

\* `if result.ready(): self.cache.set(f"task:{task_id}", response, ttl=300)`
\* and `return response`.
CacheStatus ==
    /\ statusCall.pc = "cache"
    /\ \E redisError \in BOOLEAN :
        LET call == AfterRead(statusCall)
            w == statusCall.worker
            key == TaskKey(statusCall.task_id)
            put == CacheSet(w, key, statusCall.response, Some(SNAPSHOT_TTL), redisError)
            wrote == ShouldCache(statusCall)
        IN /\ redisError => wrote
           /\ statusCall' = [call EXCEPT !.pc = "returned"]
           /\ redis' = IF wrote THEN put.redis ELSE redis
           /\ stats' = IF wrote THEN put.stats ELSE stats
           /\ reply' = IF wrote
                       THEN Reply("set", w, key, None, redisError, put)
                              @@ [value |-> statusCall.response,
                                  ttl |-> Some(SNAPSHOT_TTL)]
                       ELSE NoCall
           /\ taskCalls' = Append(taskCalls,
                 TaskCall("get_task_status", statusCall.task_id,
                          [response |-> statusCall.response], None, FALSE,
                          wrote /\ put.ret, celery.meta[statusCall.task_id].status)
                   @@ [http |-> HttpStatus(statusCall.response)])
    /\ UNCHANGED <<architect, clearCall, celery, config, hashSeed, now, runs, calls, events, cacheSets>>

\* The revoke request a worker holds after one more was received.
Revocation(held, terminate) ==
    IF terminate \/ held = "terminate" THEN "terminate" ELSE "revoke"

\* True returned whether or not the queue took the request.
RevokeReturns_AlwaysTrue(queueError) == TRUE

\* What revoke_task returns: True after the try body, False from the except.
RevokeReturns(queueError) == ~queueError

\* The snapshot evicted whether or not the queue took the request.
Evicts_Always(queueError) == TRUE

\* Whether revoke_task reaches self.cache.delete: only when app.control.revoke
\* returned, the exception of a failed request going straight to the except.
Evicts(queueError) == ~queueError

\* A get_task_status call that has not returned yet has read a terminal
\* status of its task from the result store: its response will be a terminal
\* snapshot.
ReadyReadInProgress ==
    /\ statusCall.pc \notin {"idle", "returned", "state"}
    /\ statusCall.response.status \in READY_STATES

\* revoke_task(task_id, terminate): app.control.revoke, then cache.delete,
\* inside `try ... except Exception`. `queueError` is whether the revoke
\* request raised. The record of the call also tells where a get_task_status
\* call of another caller was when it was made (during, ready).
RevokeTask(w, task_id) ==
    /\ Len(taskCalls) < MaxTaskCalls
    /\ \E terminate \in BOOLEAN, queueError \in BOOLEAN, redisError \in BOOLEAN :
        LET del == CacheDelete(w, TaskKey(task_id), redisError)
            state == celery.meta[task_id].status
        IN /\ queueError => ~redisError
           /\ celery' = IF queueError THEN celery
                        ELSE [celery EXCEPT !.revoked[task_id] = Revocation(@, terminate)]
           /\ redis' = IF Evicts(queueError) THEN del.redis ELSE redis
           /\ stats' = IF Evicts(queueError) THEN del.stats ELSE stats
           /\ reply' = IF Evicts(queueError)
                       THEN Reply("delete", w, TaskKey(task_id), None, redisError, del)
                       ELSE NoCall
           /\ taskCalls' = Append(taskCalls,
                 TaskCall("revoke_task", task_id,
                          [flag |-> RevokeReturns(queueError)], None, FALSE,
                          Evicts(queueError) /\ del.ret, state)
                   @@ [terminate |-> terminate, queueError |-> queueError,
                       redisError |-> redisError,
                       during |-> statusCall.pc, ready |-> ReadyReadInProgress])
    /\ UNCHANGED <<architect, clearCall, statusCall, config, hashSeed, now, runs, calls, events, cacheSets>>

\* A step of the queue: the broker or a worker process.
QueueStep(queue) ==
    /\ celery' = queue
    /\ reply' = NoCall
    /\ UNCHANGED <<architect, clearCall, statusCall, taskCalls, config, hashSeed, redis, stats, now,
                   runs, calls, events, cacheSets>>

\* generate_prompt_task.delay(...): the task is handed to the broker.
Submit(task_id) ==
    /\ task_id \notin celery.sent
    /\ QueueStep([celery EXCEPT !.sent = @ \cup {task_id}])

\* A worker receives the task: it starts it (task_track_started), or marks it
\* revoked when it holds a revoke request for it.
WorkerStart(task_id) ==
    /\ task_id \in celery.sent
    /\ celery.meta[task_id].status = "PENDING"
    /\ QueueStep([celery EXCEPT !.meta[task_id] =
          IF celery.revoked[task_id] = "no"
          THEN [PendingMeta EXCEPT !.status = "STARTED"]
          ELSE [status |-> "REVOKED", result |-> Some(TaskRevokedError),
                traceback |-> None]])

\* The task returns or raises; a revoke request without terminate does not
\* stop a task that has started.
WorkerFinish(task_id) ==
    /\ celery.meta[task_id].status = "STARTED"
    /\ \E meta \in {[status |-> "SUCCESS", result |-> Some(TaskResult), traceback |-> None],
                    [status |-> "FAILURE", result |-> Some(TaskError),
                     traceback |-> Some("Traceback")]} :
           QueueStep([celery EXCEPT !.meta[task_id] = meta])

\* The worker terminates a started task it holds a terminate request for.
WorkerTerminate(task_id) ==
    /\ celery.meta[task_id].status = "STARTED"
    /\ celery.revoked[task_id] = "terminate"
    /\ QueueStep([celery EXCEPT !.meta[task_id] =
          [status |-> "REVOKED", result |-> Some(TaskRevokedError), traceback |-> None]])

\* SpecTasks: one process making get_task_status and revoke_task calls, one
\* after the other, for a task that is sent to the queue (and get_task_status
\* also for an identifier that never is), while the queue's worker runs the
\* task and the snapshot's time to live elapses; the cache store and the
\* broker may fail at any call.
InitTasks ==
    /\ config = [MAX_ITERATIONS |-> None,
                 MIN_ACCEPTABLE_SCORE |-> MIN_ACCEPTABLE_SCORE]
    /\ hashSeed = [w \in Procs |-> "seedA"]
    /\ Fresh

NextTasks ==
    \/ \E task_id \in TaskIds : GetTaskStatus("w1", task_id)
    \/ ReadState
    \/ ReadReady
    \/ ReadSuccessful
    \/ ReadFailed
    \/ ReadResult
    \/ CacheStatus
    \/ \E task_id \in SentIds : statusCall.pc \in {"idle", "returned"} /\ RevokeTask("w1", task_id)
    \/ \E task_id \in SentIds : Submit(task_id)
    \/ \E task_id \in TaskIds : WorkerStart(task_id)
    \/ \E task_id \in TaskIds : WorkerFinish(task_id)
    \/ \E task_id \in TaskIds : WorkerTerminate(task_id)
    \/ \E name \in DOMAIN redis : RedisExpire(name)

SpecTasks == InitTasks /\ [][NextTasks]_vars

\* No revoke_task call has been made.
NotRevokedYet == \A i \in 1..Len(taskCalls) : taskCalls[i].op # "revoke_task"

\* SpecRace: get_task_status calls of one process for the task, and one
\* revoke_task call of another process for it, made at any moment, also while
\* a get_task_status call is between two of its steps; the worker runs the
\* task meanwhile, and the cache store and the broker may fail at any call.
NextRace ==
    \/ GetTaskStatus("w1", "t1")
    \/ ReadState
    \/ ReadReady
    \/ ReadSuccessful
    \/ ReadFailed
    \/ ReadResult
    \/ CacheStatus
    \/ NotRevokedYet /\ RevokeTask("w2", "t1")
    \/ Submit("t1")
    \/ WorkerStart("t1")
    \/ WorkerFinish("t1")
    \/ WorkerTerminate("t1")
    \/ \E name \in DOMAIN redis : RedisExpire(name)

SpecRace == InitTasks /\ [][NextRace]_vars

(* ------------------------- observations -------------------------------- *)

\* Number of calls of collaborator operation `op` the run has made, the one
\* that raised (if any) included. A call record holds the arguments of the
\* call, whether it returned (ok) and what it returned (out).
CallCount(r, op) == Cardinality({i \in 1..Len(calls[r]) : calls[r][i].op = op})
EvalCalls(r) == CallCount(r, "evaluate")
RefineCalls(r) == CallCount(r, "refine_prompt")

\* The run missed the run-level cache and went on to the loop.
Missed(r) == runs[r].lookup \in {"miss", "error"}
\* generate_prompt returned a result built by the loop.
LoopReturned(r) == runs[r].pc = "done" /\ Missed(r)
\* The run has a finite budget N >= 1; Budget(r) is N.
Budgeted(r) == runs[r].max_iterations # None /\ TheValue(runs[r].max_iterations) >= 1
Budget(r) == TheValue(runs[r].max_iterations)
Results(r) == runs[r].current_run_results
ReturnedResult(r) == TheValue(runs[r].returned)
AllBelowTarget(r) ==
    \A i \in 1..Len(Results(r)) : Results(r)[i].score < MIN_ACCEPTABLE_SCORE

(* ------------------------------ claims --------------------------------- *)

\* C1: a run that misses the run-level cache with an effective budget
\* max_iterations = N >= 1 invokes the cached evaluation at most N times,
\* whatever the scores, and a result it returns has len(iterations) <= N.
Thm_C1_AtMostNEvaluations ==
    \A r \in Runs :
        (Missed(r) /\ Budgeted(r)) =>
            /\ EvalCalls(r) <= Budget(r)
            /\ Len(Results(r)) <= Budget(r)
            /\ runs[r].pc = "done" => Len(ReturnedResult(r).iterations) <= Budget(r)

\* A run with budget 2 that used both evaluations and returned two records.
Wit_C1_BudgetUsedUp ==
    \E r \in Runs :
        /\ LoopReturned(r) /\ Budgeted(r) /\ Budget(r) = 2
        /\ EvalCalls(r) = 2
        /\ Len(ReturnedResult(r).iterations) = 2

\* C2: when the first evaluation of a run scores >= MIN_ACCEPTABLE_SCORE (the
\* threshold itself included), the run makes exactly one evaluation and no
\* refine call, keeps exactly one iteration record, goes straight to the
\* return, and returns that score as final_score; for every budget, None too.
Thm_C2_EarlyStop ==
    \A r \in Runs :
        (Results(r) # <<>> /\ Results(r)[1].score >= MIN_ACCEPTABLE_SCORE) =>
            /\ Len(Results(r)) = 1
            /\ EvalCalls(r) = 1
            /\ RefineCalls(r) = 0
            /\ runs[r].pc \in {"finish", "done"}
            /\ runs[r].pc = "done" =>
                  /\ Len(ReturnedResult(r).iterations) = 1
                  /\ ReturnedResult(r).final_score = Results(r)[1].score

\* An unbudgeted run returned after one evaluation that scored exactly the
\* threshold.
Wit_C2_ThresholdOnFirst ==
    \E r \in Runs :
        /\ LoopReturned(r) /\ runs[r].max_iterations = None
        /\ Len(ReturnedResult(r).iterations) = 1
        /\ ReturnedResult(r).final_score = MIN_ACCEPTABLE_SCORE

\* C3: with budget N >= 1 and every evaluation below MIN_ACCEPTABLE_SCORE, once
\* the N-th evaluation is made there have been exactly N - 1 refine calls and
\* the run is at its return (no refine and no evaluation follows), and the
\* result returned has N iterations and the N-th score as final_score.
Thm_C3_BudgetExhausted ==
    \A r \in Runs :
        (Missed(r) /\ Budgeted(r) /\ AllBelowTarget(r)) =>
            /\ Len(Results(r)) = Budget(r) =>
                  /\ EvalCalls(r) = Budget(r)
                  /\ RefineCalls(r) = Budget(r) - 1
                  /\ runs[r].pc \in {"finish", "done"}
            /\ runs[r].pc = "done" =>
                  /\ EvalCalls(r) = Budget(r)
                  /\ RefineCalls(r) = Budget(r) - 1
                  /\ Len(ReturnedResult(r).iterations) = Budget(r)
                  /\ ReturnedResult(r).final_score = Results(r)[Budget(r)].score

\* Budget 3, three evaluations below the threshold with different scores, and
\* the run returned the third.
Wit_C3_ThreeLowScores ==
    \E r \in Runs :
        /\ LoopReturned(r) /\ Budgeted(r) /\ Budget(r) = 3 /\ AllBelowTarget(r)
        /\ Len(ReturnedResult(r).iterations) = 3
        /\ Results(r)[1].score # Results(r)[3].score
        /\ ReturnedResult(r).final_score = Results(r)[3].score

\* C4: every result generate_prompt returns after executing the loop has at
\* least one iteration record, and its final_score and final_prompt are the
\* score and the prompt of its last record.
Thm_C4_FinalIsLastRecord ==
    \A r \in Runs :
        LoopReturned(r) =>
            LET res == ReturnedResult(r)
                n == Len(res.iterations)
            IN /\ n >= 1
               /\ res.final_score = res.iterations[n].score
               /\ res.final_prompt = res.iterations[n].prompt

\* A returned result whose last record differs from its first in prompt and in
\* score.
Wit_C4_RefinedResult ==
    \E r \in Runs :
        /\ LoopReturned(r)
        /\ Len(ReturnedResult(r).iterations) >= 2
        /\ ReturnedResult(r).iterations[1].prompt # ReturnedResult(r).final_prompt
        /\ ReturnedResult(r).iterations[1].score # ReturnedResult(r).final_score

\* The records of a run are numbered 1, 2, ... in order and their timestamps
\* do not decrease.
WellNumbered(records) ==
    \A i \in 1..Len(records) :
        /\ records[i].iteration = i
        /\ i > 1 => records[i - 1].timestamp <= records[i].timestamp

\* One step leaves the records of run r as they were or appends one record.
AppendOnly(r) ==
    \/ Results(r)' = Results(r)
    \/ /\ Len(Results(r)') = Len(Results(r)) + 1
       /\ SubSeq(Results(r)', 1, Len(Results(r))) = Results(r)

FailedCalls(r) == {i \in 1..Len(calls[r]) : ~calls[r][i].ok}

\* C8: when generate_initial_prompt, refine_prompt or the evaluation raises,
\* generate_prompt ends with that failure; the call that raised is the last
\* collaborator call of the run and the only one that raised (it is not made
\* again), and a run that has failed takes no further step.
Thm_C8_FailurePropagates ==
    /\ [](\A r \in Runs :
            /\ \A i \in FailedCalls(r) :
                  /\ i = Len(calls[r])
                  /\ runs[r].pc = "failed"
                  /\ runs[r].raised =
                        Some(IF calls[r][i].op = "evaluate"
                             THEN "EvaluationFailure" ELSE "GenerationFailure")
                  /\ runs[r].returned = None)
    /\ [][\A r \in Runs :
            runs[r].pc = "failed" =>
                /\ runs'[r] = runs[r]
                /\ calls'[r] = calls[r]
                /\ cacheSets'[r] = cacheSets[r]]_vars

\* A run whose second evaluation raised, after a successful refine.
Wit_C8_SecondEvaluationRaised ==
    \E r \in Runs :
        /\ runs[r].pc = "failed"
        /\ runs[r].raised = Some("EvaluationFailure")
        /\ EvalCalls(r) = 2 /\ RefineCalls(r) = 1
        /\ FailedCalls(r) = {Len(calls[r])}

\* The run-level cache entries of the store.
RunCacheNames == {name \in DOMAIN redis : name[2] = "prompt_gen:"}

\* C9: a run that missed the run-level cache and returned has made exactly one
\* cache.set, of the result it returns, under its requirements-derived key,
\* with ttl 86400; a run that has not got past its loop, a run that failed and
\* a run that hit the cache have made none. Every run-level entry in the store
\* expires after 86400 seconds.
Thm_C9_OneCacheWrite ==
    /\ \A r \in Runs :
          IF LoopReturned(r)
          THEN /\ Len(cacheSets[r]) = 1
               /\ cacheSets[r][1].key =
                     RunCacheKey(runs[r].worker, runs[r].requirements)
               /\ cacheSets[r][1].value = ReturnedResult(r)
               /\ cacheSets[r][1].ttl = RUN_CACHE_TTL
          ELSE cacheSets[r] = <<>>
    /\ \A name \in RunCacheNames :
          /\ redis[name].ttl = Some(RUN_CACHE_TTL)
          /\ \E r \in Runs :
                /\ LoopReturned(r)
                /\ cacheSets[r][1].ok
                /\ name = MakeKey(cacheSets[r][1].key)
                /\ redis[name].value = Serialize(ReturnedResult(r))

\* One run missed, returned and stored its result; the other hit that entry
\* and wrote nothing.
Wit_C9_WriterAndReader ==
    \E r, q \in Runs :
        /\ LoopReturned(r) /\ cacheSets[r][1].ok
        /\ Live(MakeKey(cacheSets[r][1].key))
        /\ runs[q].pc = "done" /\ runs[q].lookup = "hit"
        /\ runs[q].returned = runs[r].returned
        /\ cacheSets[q] = <<>>

\* C6 as claimed: when generate_prompt is called with the same requirements a
\* second time, after a first call that started on an empty cache has
\* returned, the second call is a cache hit: it returns the first call's
\* final_prompt and final_score and calls no collaborator. (Stated for the
\* case where the store answered the second lookup and still holds the first
\* call's entry.)
Claim_C6_SecondCallHits ==
    \A r, q \in Runs :
        ( /\ r # q
          /\ LoopReturned(r) /\ runs[r].after = {}
          /\ runs[q].pc = "done" /\ r \in runs[q].after
          /\ runs[q].requirements = runs[r].requirements
          /\ runs[q].lookup # "error"
          /\ Live(MakeKey(TheValue(runs[r].cache_key)))
          /\ redis[MakeKey(TheValue(runs[r].cache_key))].value
                = Serialize(ReturnedResult(r)) )
        => /\ runs[q].lookup = "hit"
           /\ calls[q] = <<>>
           /\ ReturnedResult(q).final_prompt = ReturnedResult(r).final_prompt
           /\ ReturnedResult(q).final_score = ReturnedResult(r).final_score

\* C7 as claimed: two runs with identical requirements compute the same
\* run-level cache key, whichever worker process executes them.
Claim_C7_KeyOfContentOnly ==
    \A r, q \in Runs :
        ( /\ runs[r].pc # "idle" /\ runs[q].pc # "idle"
          /\ runs[r].requirements = runs[q].requirements )
        => runs[r].cache_key = runs[q].cache_key

\* C10 as claimed: when the loop of a run has terminated and the run returned,
\* its result has been written exactly once under "task:" + task_id.
Claim_C10_TrackerWrite ==
    \A r \in Runs :
        LoopReturned(r) =>
            Cardinality({i \in 1..Len(cacheSets[r]) :
                            /\ cacheSets[r][i].key = TaskKey(TheValue(runs[r].task_id))
                            /\ cacheSets[r][i].value = ReturnedResult(r)}) = 1

\* C11: when a progress_callback is supplied, the invocations of the callback
\* are, iteration by iteration, an EVALUATING event (task_id of the run,
\* iteration k, current_score None) followed by an EVALUATED event (same
\* task_id and k, the score of record k, record k as details); an EVALUATING
\* event without its EVALUATED event is the last one, of the iteration being
\* evaluated or of the one the run ended in; a returned run has made
\* 2 * len(iterations) invocations. Without a callback there is no invocation.
Thm_C11_TwoEventsPerIteration ==
    \A r \in Runs :
        LET ev == events[r]
            recs == Results(r)
            tid == TheValue(runs[r].task_id)
        IN IF ~runs[r].progress_callback
           THEN ev = <<>>
           ELSE /\ Len(ev) \in {2 * Len(recs), 2 * Len(recs) + 1}
                /\ \A i \in 1..Len(ev) :
                      /\ ev[i].task_id = tid
                      /\ ev[i].iteration = (i + 1) \div 2
                      /\ IF i % 2 = 1
                         THEN /\ ev[i].status = "EVALUATING"
                              /\ ev[i].current_score = None
                         ELSE /\ ev[i].status = "EVALUATED"
                              /\ ev[i].current_score = Some(recs[i \div 2].score)
                              /\ ev[i].details = Some(recs[i \div 2])
                /\ Len(ev) = 2 * Len(recs) + 1 =>
                      runs[r].pc \in {"evaluate", "failed", "blocked"}
                /\ LoopReturned(r) =>
                      Len(ev) = 2 * Len(ReturnedResult(r).iterations)

\* A run with a caller-chosen task_id and a callback returned two records
\* after four invocations.
Wit_C11_FourEvents ==
    \E r \in Runs :
        /\ LoopReturned(r) /\ runs[r].progress_callback
        /\ runs[r].task_id = Some(<<"arg", "t1">>)
        /\ Len(ReturnedResult(r).iterations) = 2
        /\ Len(events[r]) = 4
        /\ events[r][4].status = "EVALUATED"

\* The run ended as it does without a callback: it returned, or a
\* collaborator call raised.
Terminated(r) ==
    \/ runs[r].pc = "done"
    \/ runs[r].pc = "failed" /\ runs[r].raised # Some("CallbackError")

\* C12 as claimed: a run that has invoked its progress_callback goes on and
\* eventually terminates, whatever the callback does (return late, never
\* return, raise).
Claim_C12_CallbackNeverBlocks ==
    \A r \in Runs : [](events[r] # <<>> => <>Terminated(r))

\* The operations of CacheManager that reach the store.
CacheOps == {"get", "set", "delete", "clear", "get_ttl", "exists"}

\* The step is a call of operation `op` of CacheManager.
IsCall(op) == reply'.op = op

\* The step changes the counters of the calling process by adding n to
\* `counter` and nothing else.
Counted(counter, n) == stats' = [stats EXCEPT ![reply'.worker][counter] = @ + n]

\* C13: a get of a key the store answers to be absent returns the default the
\* caller gave, raises nothing, and adds one to misses, leaving hits, errors
\* and the other counters as they were.
Thm_C13_MissReturnsDefault ==
    [][(IsCall("get") /\ ~reply'.redisError /\ ~Live(MakeKey(reply'.key))) =>
          /\ reply'.raised = None
          /\ reply'.ret.value = reply'.default
          /\ Counted("misses", 1)]_vars

\* A get with a default other than None missed and returned it; it is the
\* only call counted so far.
Wit_C13_DefaultReturned ==
    /\ reply.op = "get" /\ ~reply.redisError
    /\ ~Live(MakeKey(reply.key))
    /\ reply.default # None /\ reply.ret.value = reply.default
    /\ stats[reply.worker] = [ZeroStats EXCEPT !.misses = 1]

\* C14 as claimed: a get of a key whose stored bytes are not JSON returns the
\* default, raises nothing and adds one to errors.
Claim_C14_CorruptIsMiss ==
    [][(/\ IsCall("get") /\ ~reply'.redisError
        /\ Live(MakeKey(reply'.key))
        /\ ~redis[MakeKey(reply'.key)].value.json) =>
          /\ reply'.raised = None
          /\ reply'.ret.value = reply'.default
          /\ stats'[reply'.worker].errors = stats[reply'.worker].errors + 1]_vars

\* What each operation returns when it did nothing.
NoOpValue(op, default) ==
    CASE op = "get" -> default
      [] op = "get_ttl" -> None
      [] op = "clear" -> 0
      [] OTHER -> FALSE

\* C15: when the store raises during get, set, delete, clear, get_ttl or
\* exists, the call raises nothing, returns default, False, False, 0, None,
\* False respectively, and adds one to errors and nothing to any other counter.
Thm_C15_StoreErrorDegrades ==
    [][(reply'.op \in CacheOps /\ reply'.redisError) =>
          /\ reply'.raised = None
          /\ reply'.ret = Returned(reply'.op, NoOpValue(reply'.op, reply'.default))
          /\ Counted("errors", 1)]_vars

\* The store raised during exists of a key it holds: False was returned and
\* errors is the only counter that moved.
Wit_C15_ExistsFailed ==
    /\ reply.op = "exists" /\ reply.redisError
    /\ Live(MakeKey(reply.key))
    /\ reply.ret.flag = FALSE /\ reply.raised = None
    /\ stats[reply.worker] = [ZeroStats EXCEPT !.errors = 1]

\* C16: a set of a value that is not representable in JSON raises ValueError
\* and leaves the store as it was (no entry created, none overwritten) and
\* the counters too (sets is not incremented).
Thm_C16_UnrepresentableRejected ==
    [][(IsCall("set") /\ ~JsonRepresentable(reply'.value)) =>
          /\ reply'.raised = Some("ValueError")
          /\ redis' = redis
          /\ stats' = stats]_vars

\* A set of a datetime raised under a key that holds the JSON document an
\* earlier set stored, which is still there.
Wit_C16_EntryKept ==
    /\ reply.op = "set" /\ reply.raised = Some("ValueError")
    /\ reply.value.py = "datetime"
    /\ Live(MakeKey(reply.key))
    /\ redis[MakeKey(reply.key)].value = Serialize([py |-> "dict", doc |-> "a1"])
    /\ stats[reply.worker] = [ZeroStats EXCEPT !.sets = 1]

\* The names of the five counters.
Counters == {"hits", "misses", "sets", "deletes", "errors"}

\* C17 as claimed: every call of get, set, delete, clear, get_ttl or exists
\* increments one of the five counters; no step other than reset_stats
\* decreases a counter; reset_stats zeroes the five and leaves the store alone.
Claim_C17_EveryCallCounts ==
    /\ [][reply'.op \in CacheOps =>
            \E c \in Counters :
                stats'[reply'.worker][c] > stats[reply'.worker][c]]_vars
    /\ [][~IsCall("reset_stats") =>
            \A w \in Procs, c \in Counters : stats'[w][c] >= stats[w][c]]_vars
    /\ [][IsCall("reset_stats") =>
            /\ stats'[reply'.worker] = ZeroStats
            /\ redis' = redis]_vars

\* C18 as claimed: a delete the store answers returns True and adds one to
\* deletes when the key was present, returns False and leaves deletes as it
\* was when the key was absent; the key is absent afterwards.
Claim_C18_DeleteCounts ==
    [][(IsCall("delete") /\ ~reply'.redisError) =>
          /\ IF Live(MakeKey(reply'.key))
             THEN reply'.ret.flag = TRUE /\ Counted("deletes", 1)
             ELSE reply'.ret.flag = FALSE /\ stats' = stats
          /\ MakeKey(reply'.key) \notin DOMAIN redis']_vars

\* The entry of key `key` was stored with a time to live and is live.
LiveWithTtl(key) == Live(MakeKey(key)) /\ redis[MakeKey(key)].ttl # None

\* The entry of key `key` was stored with a time to live that has elapsed.
Elapsed(key) == MakeKey(key) \in DOMAIN redis /\ ~Live(MakeKey(key))

\* C19, amended: while an entry stored by set(k, v, ttl = T) with T > 0 is
\* live, a get_ttl(k) the store answers returns r with 0 <= r <= T; once its
\* time to live has elapsed, get(k, default) returns default and exists(k)
\* returns False.
Thm_C19_TtlWithinBounds ==
    /\ [][(IsCall("get_ttl") /\ ~reply'.redisError /\ LiveWithTtl(reply'.key)) =>
            /\ reply'.ret.remaining # None
            /\ 0 <= TheValue(reply'.ret.remaining)
            /\ TheValue(reply'.ret.remaining)
                  <= TheValue(redis[MakeKey(reply'.key)].ttl)]_vars
    /\ [][(reply'.op \in {"get", "exists"} /\ Elapsed(reply'.key)) =>
            reply'.ret = Returned(reply'.op, NoOpValue(reply'.op, reply'.default))]_vars

\* A get_ttl of an entry that has aged returned less than the time to live it
\* was stored with, and more than 0.
Wit_C19_TtlDecreased ==
    /\ reply.op = "get_ttl" /\ ~reply.redisError
    /\ LiveWithTtl(reply.key)
    /\ redis[MakeKey(reply.key)].age > 0
    /\ reply.ret.remaining # None
    /\ TheValue(reply.ret.remaining) > 0
    /\ TheValue(reply.ret.remaining) < TheValue(redis[MakeKey(reply.key)].ttl)

\* C19 as claimed: while the entry is live, get_ttl(k) returns r with
\* 0 < r <= T; after the time to live, get and exists find nothing.
Claim_C19_TtlPositive ==
    /\ [][(IsCall("get_ttl") /\ ~reply'.redisError /\ LiveWithTtl(reply'.key)) =>
            /\ reply'.ret.remaining # None
            /\ 0 < TheValue(reply'.ret.remaining)
            /\ TheValue(reply'.ret.remaining)
                  <= TheValue(redis[MakeKey(reply'.key)].ttl)]_vars
    /\ [][(reply'.op \in {"get", "exists"} /\ Elapsed(reply'.key)) =>
            reply'.ret = Returned(reply'.op, NoOpValue(reply'.op, reply'.default))]_vars

\* The entry under store key `name` is not the same before and after the step.
Changed(name) ==
    \/ (name \in DOMAIN redis) # (name \in DOMAIN redis')
    \/ name \in DOMAIN redis /\ name \in DOMAIN redis' /\ redis'[name] # redis[name]

\* C20: the store keys a call of get, set, delete, get_ttl or exists addresses
\* are the prefix followed by the caller's key, those a clear addresses match
\* the prefix followed by the caller's pattern; a call changes no entry but
\* those, so every key of the store that does not begin with the prefix is
\* there after the call with the entry it had, clear('*') included.
Thm_C20_Namespaced ==
    [][reply'.op \in CacheOps =>
          /\ \A name \in reply'.touched :
                /\ Head(name) = KeyPrefix
                /\ IF reply'.op = "clear"
                   THEN GlobMatch(<<KeyPrefix>> \o reply'.key, name)
                   ELSE name = <<KeyPrefix>> \o reply'.key
          /\ \A name \in DOMAIN redis \cup DOMAIN redis' :
                Changed(name) => name \in reply'.touched
          /\ \A name \in DOMAIN redis :
                Head(name) # KeyPrefix =>
                    name \in DOMAIN redis' /\ redis'[name] = redis[name]]_vars

\* clear('*') removed the two entries of the cache and the broker's keys are
\* all that is left in the store.
Wit_C20_ClearAll ==
    /\ reply.op = "clear" /\ reply.key = <<"*">> /\ reply.ret.count = 2
    /\ DOMAIN redis = ForeignNames
    /\ \A name \in ForeignNames : redis[name].value = NotJson

(* ------------------------- claims: TaskManager ------------------------- *)

\* The store key of the snapshot of a task, and the snapshot held under it.
SnapshotName(task_id) == MakeKey(TaskKey(task_id))
Snapshot(task_id) == redis[SnapshotName(task_id)].value.doc

\* The TaskManager call that returned in this step, if one did.
TaskCallReturned == Len(taskCalls') = Len(taskCalls) + 1
LastTaskCall == taskCalls'[Len(taskCalls')]

\* C21 (as stated): every snapshot present under "task:"+task_id was stored
\* with a time to live of 300 seconds and describes a terminal state: its
\* status is a ready state and its ready flag is set; a pending or running
\* status is never cached.
Claim_C21_OnlyTerminalCached ==
    \A task_id \in TaskIds :
        Live(SnapshotName(task_id)) =>
            /\ redis[SnapshotName(task_id)].ttl = Some(SNAPSHOT_TTL)
            /\ Snapshot(task_id).status \in READY_STATES
            /\ Snapshot(task_id).ready

\* The step enters get_task_status(task_id): it makes the cache lookup.
StatusLookup(task_id) ==
    /\ statusCall.pc \in {"idle", "returned"}
    /\ reply'.op = "get"
    /\ reply'.key = TaskKey(task_id)

\* The step returns the cached snapshot of task_id unchanged, without a query
\* of the result store and without a write of the cache or the queue.
AnsweredFromCache(task_id) ==
    /\ TaskCallReturned
    /\ LastTaskCall.op = "get_task_status"
    /\ LastTaskCall.ret.response = Snapshot(task_id)
    /\ LastTaskCall.cached
    /\ statusCall'.reads = 0
    /\ redis' = redis
    /\ celery' = celery

\* C22: when a live snapshot exists under "task:"+task_id and the cache lookup
\* reads it, get_task_status returns that snapshot unchanged and neither
\* queries the result store nor writes the cache; the result store is queried
\* only by a call whose lookup was a miss (a lookup on which the backing store
\* failed degrades to a miss).
Thm_C22_SnapshotAnswers ==
    [][/\ \A task_id \in TaskIds :
            StatusLookup(task_id) /\ Live(SnapshotName(task_id)) /\ ~reply'.redisError
                => AnsweredFromCache(task_id)
       /\ statusCall'.reads > statusCall.reads
            => statusCall.lookup \in {"miss", "error"}]_vars

\* A second status call is answered from the snapshot the first one wrote.
Wit_C22_AnsweredFromSnapshot ==
    /\ Len(taskCalls) = 2
    /\ taskCalls[1].op = "get_task_status" /\ taskCalls[1].wrote
    /\ taskCalls[2].op = "get_task_status" /\ taskCalls[2].cached
    /\ taskCalls[2].ret = taskCalls[1].ret
    /\ taskCalls[2].ret.response.status = "SUCCESS"
    /\ statusCall.reads = 0

\* The call that returned in this step is revoke_task(task_id) returning True
\* for a task the result store held as started.
RevokedRunning(call, task_id) ==
    /\ call.op = "revoke_task"
    /\ call.task_id = task_id
    /\ call.ret.flag
    /\ call.state = "STARTED"

\* C23 (as stated): after revoke_task(task_id) on a running task returns True
\* no cached snapshot exists under "task:"+task_id, and the next
\* get_task_status(task_id) is answered from the result store and reports a
\* terminal or cancelled state.
Claim_C23_RevokeThenStatus ==
    [][\A task_id \in TaskIds :
        TaskCallReturned =>
            /\ RevokedRunning(LastTaskCall, task_id) => ~Live(SnapshotName(task_id))'
            /\ (/\ taskCalls # <<>>
                /\ RevokedRunning(taskCalls[Len(taskCalls)], task_id)
                /\ LastTaskCall.op = "get_task_status"
                /\ LastTaskCall.task_id = task_id)
                    => /\ ~LastTaskCall.cached
                       /\ LastTaskCall.ret.response.status \in READY_STATES]_vars

\* C24: revoke_task never raises; it returns False when the queue's revoke
\* request failed, and True only when the queue accepted the request (the
\* workers then hold it).
Thm_C24_RevokeNeverRaises ==
    [][(TaskCallReturned /\ LastTaskCall.op = "revoke_task") =>
        /\ LastTaskCall.raised = None
        /\ LastTaskCall.queueError => ~LastTaskCall.ret.flag
        /\ LastTaskCall.ret.flag =>
              /\ ~LastTaskCall.queueError
              /\ celery'.revoked[LastTaskCall.task_id] # "no"
        /\ ~LastTaskCall.ret.flag => celery' = celery]_vars

\* A revoke request the queue refused, reported as False, and one it accepted.
Wit_C24_RefusedThenAccepted ==
    /\ Len(taskCalls) >= 2
    /\ taskCalls[1].op = "revoke_task" /\ taskCalls[1].queueError
    /\ ~taskCalls[1].ret.flag
    /\ taskCalls[2].op = "revoke_task" /\ taskCalls[2].ret.flag
    /\ celery.revoked["t1"] = "terminate"

\* C25 (as stated): get_task_status for an identifier that was never
\* submitted returns a falsy "not found" value, and the HTTP boundary answers
\* 404.
Claim_C25_UnknownIsNotFound ==
    \A i \in 1..Len(taskCalls) :
        (taskCalls[i].op = "get_task_status" /\ taskCalls[i].task_id \notin SentIds) =>
            /\ taskCalls[i].raised = None
            /\ ~Truthy(Some(taskCalls[i].ret.response))
            /\ taskCalls[i].http = 404

\* C26 (as stated): a status record returned for a terminal non-successful
\* state contains an error string, a record for a successful task contains
\* its result and no error, a record for a non-terminal state contains
\* neither; and get_task_status deletes nothing from the cache or the result
\* store.
Claim_C26_RecordMatchesState ==
    [][(TaskCallReturned /\ LastTaskCall.op = "get_task_status") =>
        LET record == LastTaskCall.ret.response
        IN /\ record.status \in {"FAILURE", "REVOKED"} => record.error # None
           /\ record.status = "SUCCESS" =>
                 record.result # None /\ record.error = None
           /\ record.status \notin READY_STATES =>
                 record.result = None /\ record.error = None
           /\ celery' = celery
           /\ DOMAIN redis \subseteq DOMAIN redis']_vars

(* ----------------------- claims: independent runs ---------------------- *)

\* The refine calls among the first i collaborator calls of run r.
RefinesUpTo(r, i) == Cardinality({j \in 1..i : calls[r][j].op = "refine_prompt"})

\* The i-th evaluate call of run r.
EvaluateCall(r, i) ==
    calls[r][CHOOSE k \in 1..Len(calls[r]) :
                /\ calls[r][k].op = "evaluate"
                /\ Cardinality({j \in 1..k : calls[r][j].op = "evaluate"}) = i]

\* C27 (as stated): the iterations a run returns are the records of its own
\* evaluations, numbered from 1, and apart from the cache store no state
\* written by one run is read by another: the version each generator request
\* of a run is formatted with depends on that run's own refine calls only.
Claim_C27_RunsIndependent ==
    \A r \in Runs :
        /\ LoopReturned(r) =>
              /\ WellNumbered(ReturnedResult(r).iterations)
              /\ Len(ReturnedResult(r).iterations) = EvalCalls(r)
              /\ \A i \in 1..Len(ReturnedResult(r).iterations) :
                    Some(ReturnedResult(r).iterations[i].prompt) = EvaluateCall(r, i).prompt
        /\ \A i \in 1..Len(calls[r]) :
              calls[r][i].version # None =>
                  TheValue(calls[r][i].version) = 1 + RefinesUpTo(r, i)

(* ------------------------ claims: CacheManager ------------------------- *)

\* The previous step was a successful set and this step reads the same key
\* with operation op, the store answering.
ReadsBackWith(op) ==
    /\ reply.op = "set" /\ reply.raised = None /\ reply.ret.flag
    /\ IsCall(op)
    /\ reply'.key = reply.key
    /\ ~reply'.redisError

LastRecord(r) == Results(r)[Len(Results(r))]

\* C30: after every evaluation the score check comes first and the budget
\* check second. A run that left the loop did so with exactly one of the two
\* outcomes: "target reached" exactly when its last score is >=
\* MIN_ACCEPTABLE_SCORE (also when that evaluation was the N-th of a budget
\* N), "budget exhausted" when the last score is below it and the budget is
\* used up. Every evaluation but the last met neither condition, and the
\* refine calls are one per such evaluation: none follows an evaluation that
\* met a condition.
Thm_C30_ScoreThenBudget ==
    \A r \in Runs :
        /\ (runs[r].pc \in {"finish", "done"} /\ Missed(r) /\ Results(r) # <<>>) =>
              /\ runs[r].outcome \in {"target reached", "budget exhausted"}
              /\ runs[r].outcome = "target reached"
                    <=> LastRecord(r).score >= MIN_ACCEPTABLE_SCORE
              /\ runs[r].outcome = "budget exhausted" =>
                    /\ Budgeted(r)
                    /\ Len(Results(r)) = Budget(r)
              /\ RefineCalls(r) = Len(Results(r)) - 1
        /\ \A i \in 1..(Len(Results(r)) - 1) :
              /\ Results(r)[i].score < MIN_ACCEPTABLE_SCORE
              /\ Budgeted(r) => i < Budget(r)
        /\ RefineCalls(r) <= Len(Results(r))
        /\ runs[r].outcome # "none" => RefineCalls(r) = Len(Results(r)) - 1

\* A run with budget 2 whose second evaluation scored the threshold: it
\* returned with outcome "target reached".
Wit_C30_TargetOnLastIteration ==
    \E r \in Runs :
        /\ LoopReturned(r)
        /\ Budgeted(r) /\ Budget(r) = 2
        /\ Len(Results(r)) = 2
        /\ LastRecord(r).score >= MIN_ACCEPTABLE_SCORE
        /\ runs[r].outcome = "target reached"

(* ------------------- claims: the order of the calls -------------------- *)

\* The i-th collaborator call of run r follows the loop's order: the first is
\* generate_initial_prompt with the run's requirements; an even-numbered one is
\* an evaluate of what the generator call before it returned; an odd-numbered
\* one after the first is a refine of the prompt just evaluated, with the
\* evaluation that call returned and the run's requirements. Every call
\* but the last has returned.
InLoopOrder(r, i) ==
    LET call == calls[r][i]
    IN /\ i < Len(calls[r]) => call.ok
       /\ IF i = 1
          THEN /\ call.op = "generate_initial_prompt"
               /\ call.requirements = runs[r].requirements
          ELSE LET before == calls[r][i - 1]
               IN IF i % 2 = 0
                  THEN /\ call.op = "evaluate"
                       /\ call.prompt = before.out
                  ELSE /\ call.op = "refine_prompt"
                       /\ call.prompt = before.prompt
                       /\ call.feedback = before.out
                       /\ call.requirements = runs[r].requirements

\* C31: within one run the collaborator calls are generate_initial_prompt,
\* evaluate(p1), refine(p1, e1), evaluate(p2), refine(p2, e2), ...: each refine
\* gets the prompt just evaluated, the evaluation just returned for it and the
\* original requirements; each evaluate gets what the generator call before it
\* returned; a call is made only after the one before it has returned, one
\* call per step of the run; and a run that returns a result of the loop made
\* an evaluate last.
Thm_C31_CallSequence ==
    /\ [](\A r \in Runs :
            /\ \A i \in 1..Len(calls[r]) : InLoopOrder(r, i)
            /\ LoopReturned(r) =>
                  /\ calls[r] # <<>>
                  /\ calls[r][Len(calls[r])].op = "evaluate"
                  /\ calls[r][Len(calls[r])].ok)
    /\ [][\A r \in Runs :
            \/ calls'[r] = calls[r]
            \/ /\ Len(calls'[r]) = Len(calls[r]) + 1
               /\ SubSeq(calls'[r], 1, Len(calls[r])) = calls[r]]_vars

\* A run that returned after three evaluations and two refines, the refines
\* having been given different prompts and different evaluations.
Wit_C31_TwoRefines ==
    \E r \in Runs :
        /\ LoopReturned(r)
        /\ Len(calls[r]) = 6
        /\ calls[r][3].prompt # calls[r][5].prompt
        /\ calls[r][3].feedback # calls[r][5].feedback
        /\ calls[r][4].prompt = calls[r][3].out

(* -------------------- claims: the cached evaluation -------------------- *)

\* The store name of the evaluation-cache entry of the prompt run r is about
\* to evaluate.
EvalName(r) == MakeKey(EvalCacheKey(TheValue(runs[r].current_prompt)))

\* The cache store raised no error in this step of run r.
StoreAnswered(r) == stats'[runs[r].worker].errors = stats[runs[r].worker].errors

\* The step appended one call to the calls of run r; LastCall(r) is that call.
CallAppended(r) == Len(calls'[r]) = Len(calls[r]) + 1
LastCall(r) == calls'[r][Len(calls'[r])]

Claim_C33_BudgetedRunEnds ==
    /\ \A r \in Runs : [](runs[r].pc # "idle" /\ Budgeted(r) => <>Ended(r))
    /\ [](\A r \in Runs :
            (LoopReturned(r) /\ runs[r].max_iterations = None) => ~AllBelowTarget(r))

(* --------------------------- claims: clear ----------------------------- *)

\* C34 (as stated): every delete request of clear names at most batch_size
\* keys, all of them keys the listing matched, and a call the store answers
\* throughout hands every listed key to a request; a call that has returned
\* returned the number of entries its requests removed and raised its
\* process's deletes counter by that number; and a call whose listing matched
\* nothing returned 0 without a delete request.
Claim_C34_ClearCountsRemoved ==
    /\ \A i \in 1..Len(clearCall.requests) : clearCall.requests[i] <= BatchSize
    /\ clearCall.remaining \subseteq clearCall.keys
    /\ clearCall.pc = "returned" =>
          /\ ~clearCall.failed => clearCall.remaining = {}
          /\ clearCall.ret = clearCall.removed
          /\ stats[clearCall.worker].deletes = clearCall.before + clearCall.removed
          /\ clearCall.keys = {} => clearCall.ret = 0 /\ clearCall.requests = <<>>

(* ------------------------- claims: the score --------------------------- *)

\* The calls of run r that reached the evaluator and returned.
EvaluatorCalls(r) ==
    {i \in 1..Len(calls[r]) :
        calls[r][i].op = "evaluate" /\ calls[r][i].ok /\ calls[r][i].evaluator = 1}

\* The text holds no line `SCORE:` at all.
NoScoreLine(text) == \A i \in 1..Len(text) : ~IsScoreLine(text[i])

\* The score int() reads from a field, brought into [0, 1000]; 0 when the
\* field is not an integer.
ClampedField(field) ==
    IF "digits" \notin DOMAIN field THEN 0
    ELSE IF field.digits > SCORE_MAX THEN SCORE_MAX
    ELSE IF field.digits < SCORE_MIN THEN SCORE_MIN
    ELSE field.digits

\* C35: every evaluation evaluate_prompt returns has an integer score in
\* [0, 1000] whatever the text of the model held: 0 when the text has no
\* SCORE: line or its first SCORE: line holds no integer, the nearer bound
\* when the integer lies outside; so every score of an iteration record,
\* every evaluation in the cache and every final_score lies in [0, 1000].
Thm_C35_ScoreClamped ==
    \A r \in Runs :
        /\ \A i \in EvaluatorCalls(r) :
              LET text == TheValue(calls[r][i].text)
                  score == TheValue(calls[r][i].out).score
              IN /\ score \in SCORE_MIN..SCORE_MAX
                 /\ NoScoreLine(text) => score = 0
                 /\ \A k \in 1..Len(text) :
                       (IsScoreLine(text[k]) /\ NoScoreLine(SubSeq(text, 1, k - 1))) =>
                           score = ClampedField(text[k][2])
        /\ \A i \in 1..Len(Results(r)) : Results(r)[i].score \in SCORE_MIN..SCORE_MAX
        /\ runs[r].pc = "done" => ReturnedResult(r).final_score \in SCORE_MIN..SCORE_MAX
        /\ \A p \in Prompts :
              Live(MakeKey(EvalCacheKey(p))) =>
                  redis[MakeKey(EvalCacheKey(p))].value.doc.score \in SCORE_MIN..SCORE_MAX

\* A run returned whose evaluation was parsed from a text with a line
\* without a score followed by `SCORE: 1500`: the record and the final score
\* hold 1000, and so does the entry of the evaluation cache.
Wit_C35_UpperBoundHit ==
    \E r \in Runs :
        /\ LoopReturned(r)
        /\ EvaluatorCalls(r) = {2}
        /\ TheValue(calls[r][2].text) =
              <<(<<[chars |-> "The prompt is clear."]>>), ScoreLine([digits |-> SCORE_MAX + 500])>>
        /\ Results(r)[1].score = SCORE_MAX
        /\ ReturnedResult(r).final_score = SCORE_MAX
        /\ Live(MakeKey(EvalCacheKey(ReturnedResult(r).final_prompt)))

(* ------------------ claims: revoke during a status call ---------------- *)

\* The i-th returned call is a revoke_task that returned True and was made
\* while a get_task_status call for the same task had read a terminal state
\* from the result store and not yet returned.
RevokedDuringStatus(i) ==
    /\ taskCalls[i].op = "revoke_task"
    /\ taskCalls[i].ret.flag
    /\ taskCalls[i].task_id = statusCall.task_id
    /\ taskCalls[i].ready

\* C36 (as stated): whenever a revoke_task(id) was made while a
\* get_task_status(id) call that had read a terminal status from the result
\* store was in progress, then once both have returned the cache holds no
\* snapshot for id made of what that call read before the revoke: the status
\* call does not write its snapshot after the revoke's eviction.
Claim_C36_NoStaleSnapshot ==
    \A i \in 1..Len(taskCalls) :
        (/\ RevokedDuringStatus(i)
         /\ i < Len(taskCalls)
         /\ taskCalls[i + 1].op = "get_task_status"
         /\ ~taskCalls[i + 1].cached) =>
            /\ ~taskCalls[i + 1].wrote
            /\ statusCall.pc = "returned" /\ i + 1 = Len(taskCalls) =>
                  ~Live(SnapshotName(taskCalls[i].task_id))

(* ------------------- claims: what the run cache holds ------------------ *)

\* The value is a complete result of a run of the given requirements: every
\* field of final_result, at least one iteration record, the records numbered
\* from 1, the prompt and the score of the last record as final_prompt and
\* final_score.
CompleteResult(value, requirements) ==
    /\ DOMAIN value = {"task_id", "final_prompt", "final_score", "iterations",
                       "requirements", "completed_at"}
    /\ value.requirements = requirements
    /\ Len(value.iterations) >= 1
    /\ \A i \in 1..Len(value.iterations) : value.iterations[i].iteration = i
    /\ value.final_score = value.iterations[Len(value.iterations)].score
    /\ value.final_prompt = value.iterations[Len(value.iterations)].prompt

BothInFlight(r, q) ==
    /\ r # q
    /\ runs[r].requirements = runs[q].requirements
    /\ LoopReturned(r) /\ LoopReturned(q)
    /\ q \notin runs[r].after /\ r \notin runs[q].after

\* The calls of generate_initial_prompt and of _evaluate_prompt_cached that
\* returned to run r.
GeneratorCalls(r) ==
    {i \in 1..Len(calls[r]) : calls[r][i].op = "generate_initial_prompt" /\ calls[r][i].ok}
EvaluateCalls(r) ==
    {i \in 1..Len(calls[r]) : calls[r][i].op = "evaluate" /\ calls[r][i].ok}

\* Run r returned a result made of its own task id, the prompt its own
\* generator call returned and the records of its own evaluations.
OwnResult(r) ==
    /\ ReturnedResult(r).task_id = TheValue(runs[r].task_id)
    /\ ReturnedResult(r).final_prompt = TheValue(calls[r][1].out)
    /\ ReturnedResult(r).iterations = Results(r)
    /\ \A i \in 1..Len(Results(r)) :
          \E k \in EvaluateCalls(r) : Results(r)[i].feedback = TheValue(calls[r][k].out)

\* Run r made a cache.set the store took, for the entry `name`.
WroteTo(r, name) ==
    /\ Len(cacheSets[r]) = 1
    /\ cacheSets[r][1].ok
    /\ MakeKey(cacheSets[r][1].key) = name

\* Every run-level entry holds the result of the run that wrote it last.
LastWriteWins ==
    \A name \in RunCacheNames : \A r \in Runs :
        ( /\ WroteTo(r, name)
          /\ \A q \in Runs : WroteTo(q, name) => cacheSets[q][1].nth <= cacheSets[r][1].nth )
        => redis[name].value = Serialize(ReturnedResult(r))

HitStep(r) == runs[r].pc = "idle" /\ runs'[r].lookup = "hit"

\* The run-level entry call r looks up.
HitName(r) == MakeKey(RunCacheKey(runs'[r].worker, runs'[r].requirements))

\* C39: on a run-level cache hit generate_prompt returns the stored result
\* unchanged: what it returns is the document the entry holds, which is the
\* result the run that populated the entry returned, with that run's task_id
\* and completed_at, whatever task_id the caller supplied; the call emits no
\* progress event, calls no collaborator and leaves the cache as it was, in
\* that step and ever after.
Thm_C39_HitReturnsStored ==
    [][\A r \in Runs :
          /\ HitStep(r) =>
                /\ runs'[r].pc = "done"
                /\ Live(HitName(r))
                /\ runs'[r].returned = Some(redis[HitName(r)].value.doc)
                /\ \E q \in Runs \ {r} :
                      /\ WroteTo(q, HitName(r))
                      /\ runs'[r].returned = runs[q].returned
                      /\ ReturnedResult(q).task_id = TheValue(runs[q].task_id)
                      /\ FinalResult(runs[q], ReturnedResult(q).completed_at)
                            = TheValue(runs'[r].returned)
                /\ redis' = redis
                /\ events' = events /\ calls' = calls /\ cacheSets' = cacheSets
          /\ runs[r].lookup = "hit" =>
                /\ runs'[r] = runs[r]
                /\ events'[r] = <<>> /\ calls'[r] = <<>> /\ cacheSets'[r] = <<>>]_vars

\* The second call named a task id of its own and a callback; it hit the
\* entry of the first call, which had none, and returned the first call's
\* result with the first call's identifier and completion time.
Wit_C39_OtherTaskIdReturned ==
    /\ LoopReturned("r1")
    /\ runs["r2"].pc = "done" /\ runs["r2"].lookup = "hit"
    /\ runs["r2"].progress_callback
    /\ runs["r2"].task_id = Some(<<"arg", "t1">>)
    /\ ReturnedResult("r2").task_id = uuid4("r1")
    /\ ReturnedResult("r2").completed_at = ReturnedResult("r1").completed_at
    /\ ReturnedResult("r2").completed_at = 1
    /\ events["r2"] = <<>> /\ calls["r2"] = <<>> /\ cacheSets["r2"] = <<>>

(* --------------------- claims: revoke and eviction --------------------- *)

\* The revoke_task call that returned in this step, and the snapshot entry of
\* its task.
RevokeReturned == TaskCallReturned /\ LastTaskCall.op = "revoke_task"
RevokedSnapshot == SnapshotName(LastTaskCall.task_id)

\* C40: when the queue's revoke request fails, revoke_task returns False and
\* makes no call of the cache: a cached snapshot of the task stays in place
\* and the cache's counters are as they were. When the queue accepts the
\* request, revoke_task returns True whatever the eviction does: the
\* snapshot is gone when the store answered, and still in place, with one more
\* error counted, when the store raised.
Thm_C40_EvictionAfterAccept ==
    [][RevokeReturned =>
        /\ LastTaskCall.queueError =>
              /\ ~LastTaskCall.ret.flag
              /\ redis' = redis /\ stats' = stats
              /\ reply'.op = "none"
        /\ ~LastTaskCall.queueError =>
              /\ LastTaskCall.ret.flag
              /\ reply'.op = "delete"
              /\ IF LastTaskCall.redisError
                 THEN /\ redis' = redis
                      /\ stats' = Bump(reply'.worker, "errors")
                 ELSE /\ RevokedSnapshot \notin DOMAIN redis'
                      /\ stats' = Bump(reply'.worker, "deletes")]_vars

\* A status call cached the snapshot of a finished task; a revoke the queue
\* refused returned False and a revoke the queue accepted, whose eviction the
\* store refused, returned True; the snapshot is still served.
Wit_C40_SnapshotSurvivesBoth ==
    /\ Len(taskCalls) = 3
    /\ taskCalls[1].op = "get_task_status" /\ taskCalls[1].wrote
    /\ taskCalls[2].op = "revoke_task" /\ taskCalls[2].queueError
    /\ ~taskCalls[2].ret.flag
    /\ taskCalls[3].op = "revoke_task" /\ ~taskCalls[3].queueError
    /\ taskCalls[3].redisError /\ taskCalls[3].ret.flag
    /\ Live(SnapshotName("t1"))
    /\ redis[SnapshotName("t1")].value = Serialize(taskCalls[1].ret.response)

=============================================================================
